---- MODULE Spec2Model ----
(***************************************************************************)
(* noface bootstrap server v2 (src/index.js): the peer registry kept in    *)
(* the `peers` Map, its HTTP handlers, the periodic cleanup timer and the  *)
(* WebSocket signaling server with its `websocketClients` Map.             *)
(*                                                                         *)
(* JavaScript strings that the code inspects (length, substring, regular   *)
(* expression, includes) are sequences of one-character strings.  Times    *)
(* are milliseconds, as Date.now() returns them.                           *)
(***************************************************************************)
EXTENDS Integers, Sequences, FiniteSets

VARIABLES
    peers,        \* the `peers` Map: its records in insertion order
    serverStats,  \* the counters the handlers below write
    now,          \* the value Date.now() returns
    nextSweep,    \* the time the cleanup interval timer is next due
    response,     \* what the handler that ran last sent back (or logged)
    inflight,     \* HTTP requests received whose handler has yet to run,
                  \* and the answers of those whose handler has run
    websocketClients,  \* the `websocketClients` Map: its entries [key, ws]
    sockets,      \* per WebSocket: its readyState and the `peerId`
                  \* variable of its connection callback
    lifecycle     \* the process: whether the HTTP server listens, whether
                  \* gracefulShutdown has run, when its timer is due, and
                  \* the exit code once the process has exited

vars == <<peers, serverStats, now, nextSweep, response, inflight,
          websocketClients, sockets, lifecycle>>

-----------------------------------------------------------------------------
(* Bounds of the model *)

MaxSweeps == 6          \* the clock stops after this many sweep periods
MaxRequests == 3        \* HTTP requests in a run
MaxSockets == 2         \* WebSocket connections in a run
MaxListPeers == 3       \* records of the small registries that are listed
MaxValidations == 1     \* requests in a run of the validation specification
Skew == 1000            \* ms between a sweep instant and the instants next to it

Sockets == 1..MaxSockets

\* the process after server.listen: the HTTP server accepts connections
\* and no shutdown has begun (deadline and code mean nothing yet)
Listening ==
    [phase |-> "running", listening |-> TRUE, deadline |-> 0, code |-> 0]

-----------------------------------------------------------------------------
(* JavaScript values of a request body or query *)

Undefined == [t |-> "undefined"]
Null == [t |-> "null"]
Str(chars) == [t |-> "string", s |-> chars]
Num(k) == [t |-> "number", n |-> k]
Arr(elems) == [t |-> "array", a |-> elems]
Bool(b) == [t |-> "boolean", b |-> b]

\* ToBoolean
Truthy(v) ==
    CASE v.t \in {"undefined", "null"} -> FALSE
      [] v.t = "string" -> Len(v.s) > 0
      [] v.t = "number" -> v.n # 0
      [] v.t = "boolean" -> v.b
      [] OTHER -> TRUE

DigitChars == <<"0", "1", "2", "3", "4", "5", "6", "7", "8", "9">>

IsDigit(c) == \E d \in 1..10 : DigitChars[d] = c

DigitValue(c) == (CHOOSE d \in 1..10 : DigitChars[d] = c) - 1

\* the decimal value of a sequence of digit characters
RECURSIVE DigitsValue(_)
DigitsValue(ds) ==
    IF Len(ds) = 0 THEN 0
    ELSE 10 * DigitsValue(SubSeq(ds, 1, Len(ds) - 1)) + DigitValue(ds[Len(ds)])

\* the longest prefix of digit characters
RECURSIVE DigitPrefix(_)
DigitPrefix(cs) ==
    IF Len(cs) = 0 \/ ~IsDigit(cs[1]) THEN <<>>
    ELSE <<cs[1]>> \o DigitPrefix(Tail(cs))

\* String(n) for an integer n
RECURSIVE NatToString(_)
NatToString(k) ==
    IF k < 10 THEN <<DigitChars[k + 1]>>
    ELSE NatToString(k \div 10) \o <<DigitChars[(k % 10) + 1]>>

NumberToString(k) == IF k < 0 THEN <<"-">> \o NatToString(-k) ELSE NatToString(k)

\* String(v), for the values a regular expression test coerces
ToString(v) ==
    CASE v.t = "string" -> v.s
      [] v.t = "number" -> NumberToString(v.n)
      [] v.t = "boolean" ->
            IF v.b THEN <<"t", "r", "u", "e">>
            ELSE <<"f", "a", "l", "s", "e">>
      [] OTHER -> <<"u", "n", "d", "e", "f", "i", "n", "e", "d">>

NaN == [nan |-> TRUE, n |-> 0]
Finite(k) == [nan |-> FALSE, n |-> k]

\* parseInt(string): optional sign, then the leading digits (no string
\* below begins with 0x, which parseInt reads as hexadecimal)
ParseIntChars(cs) ==
    LET neg == Len(cs) > 0 /\ cs[1] = "-"
        rest == IF Len(cs) > 0 /\ cs[1] \in {"-", "+"} THEN Tail(cs) ELSE cs
        ds == DigitPrefix(rest)
    IN IF Len(ds) = 0 THEN NaN
       ELSE Finite(IF neg THEN -DigitsValue(ds) ELSE DigitsValue(ds))

\* parseInt(v): the argument is converted to a string first
parseInt(v) == ParseIntChars(ToString(v))

\* the value of a sequence of binary digit characters
RECURSIVE BinaryValue(_)
BinaryValue(bs) ==
    IF Len(bs) = 0 THEN 0
    ELSE 2 * BinaryValue(SubSeq(bs, 1, Len(bs) - 1)) + DigitValue(bs[Len(bs)])

\* a binary integer literal: 0b or 0B and one binary digit or more
IsBinaryLiteral(cs) ==
    /\ Len(cs) > 2
    /\ cs[1] = "0"
    /\ cs[2] \in {"b", "B"}
    /\ \A i \in 3..Len(cs) : cs[i] \in {"0", "1"}

\* Number(v), as isNaN and the comparison operators apply it, for numbers,
\* booleans, strings of decimal digits and binary integer literals (the
\* inputs below hold no string with white space, a sign, a fraction, an
\* exponent or another radix prefix)
ToNumber(v) ==
    CASE v.t = "number" -> Finite(v.n)
      [] v.t = "boolean" -> Finite(IF v.b THEN 1 ELSE 0)
      [] v.t = "string" ->
            IF Len(v.s) = 0 THEN Finite(0)
            ELSE IF \A i \in 1..Len(v.s) : IsDigit(v.s[i])
                 THEN Finite(DigitsValue(v.s))
            ELSE IF IsBinaryLiteral(v.s)
                 THEN Finite(BinaryValue(SubSeq(v.s, 3, Len(v.s))))
            ELSE NaN
      [] OTHER -> NaN

isNaN(v) == ToNumber(v).nan

-----------------------------------------------------------------------------
(* validatePeerData *)

\* the pieces of a string between the dots
RECURSIVE SplitDots(_)
SplitDots(cs) ==
    IF \A i \in 1..Len(cs) : cs[i] # "."
    THEN <<cs>>
    ELSE LET k == CHOOSE i \in 1..Len(cs) :
                      cs[i] = "." /\ \A j \in 1..(i - 1) : cs[j] # "."
         IN <<SubSeq(cs, 1, k - 1)>> \o SplitDots(SubSeq(cs, k + 1, Len(cs)))

\* 25[0-5]|2[0-4][0-9]|[01]?[0-9][0-9]?
OctetMatches(cs) ==
    /\ Len(cs) \in 1..3
    /\ \A i \in 1..Len(cs) : IsDigit(cs[i])
    /\ Len(cs) = 3 =>
          \/ cs[1] \in {"0", "1"}
          \/ cs[1] = "2" /\ DigitValue(cs[2]) <= 4
          \/ cs[1] = "2" /\ cs[2] = "5" /\ DigitValue(cs[3]) <= 5

\* ipRegex.test(v)
ipRegexTest(v) ==
    LET parts == SplitDots(ToString(v))
    IN Len(parts) = 4 /\ \A i \in 1..4 : OctetMatches(parts[i])

\* whether v.includes exists (strings and arrays have it)
HasIncludes(v) == v.t \in {"string", "array"}

\* v.includes(c) for a string v
StringIncludes(v, c) == \E i \in 1..Len(v.s) : v.s[i] = c

InvalidId(data) ==
    ~Truthy(data.id) \/ data.id.t # "string" \/ Len(data.id.s) < 10

InvalidIp(data) == ~Truthy(data.ip) \/ data.ip.t # "string"

InvalidPort(data) ==
    \/ ~Truthy(data.port)
    \/ isNaN(data.port)
    \/ ToNumber(data.port).n < 1
    \/ ToNumber(data.port).n > 65535

\* the format check reaches data.ip.includes, which a number does not have
FormatCheckThrows(data) ==
    Truthy(data.ip) /\ ~ipRegexTest(data.ip) /\ ~HasIncludes(data.ip)

InvalidIpFormat(data) ==
    Truthy(data.ip) /\ ~ipRegexTest(data.ip) /\ ~StringIncludes(data.ip, ":")

\* the list of errors validatePeerData returns, or the fact that it threw
validatePeerData(data) ==
    LET e1 == IF InvalidId(data) THEN <<"Invalid peer ID">> ELSE <<>>
        e2 == IF InvalidIp(data) THEN <<"Invalid IP address">> ELSE <<>>
        e3 == IF InvalidPort(data) THEN <<"Invalid port number">> ELSE <<>>
    IN IF FormatCheckThrows(data)
       THEN [threw |-> TRUE, errors |-> e1 \o e2 \o e3]
       ELSE [threw |-> FALSE,
             errors |-> e1 \o e2 \o e3 \o
                        (IF InvalidIpFormat(data)
                         THEN <<"Invalid IP address format">> ELSE <<>>)]

-----------------------------------------------------------------------------
(* The peers Map.  A JavaScript Map iterates in insertion order, set() on
   a present key keeps the key's position, delete() removes it. *)

MapHas(m, k) == \E i \in 1..Len(m) : m[i].id.s = k

MapIndex(m, k) == CHOOSE i \in 1..Len(m) : m[i].id.s = k

MapGet(m, k) == m[MapIndex(m, k)]

\* a variant that adds an entry whether or not the key is there
MapSet_Append(m, k, v) == Append(m, v)

MapSet(m, k, v) ==
    IF MapHas(m, k) THEN [m EXCEPT ![MapIndex(m, k)] = v] ELSE Append(m, v)

\* a variant that removes the oldest entry whatever the key
MapDelete_Head(m, k) == Tail(m)

\* a variant that leaves the record where it is
MapDelete_Keep(m, k) == m

MapDelete(m, k) == SelectSeq(m, LAMBDA e : e.id.s # k)

MapKeys(m) == {m[i].id.s : i \in 1..Len(m)}

-----------------------------------------------------------------------------
(* Program constants *)

inactiveThreshold == 5 * 60 * 1000
activeThreshold == 2 * 60 * 1000
sweepInterval == 60 * 1000
defaultLimit == 50
maxLimit == 100

\* the literals of the code
DefaultVersion == <<"1", ".", "0", ".", "0">>
NamePrefix == <<"P", "e", "e", "r", "-">>
UnknownAgent == <<"U", "n", "k", "n", "o", "w", "n">>
TrueChars == <<"t", "r", "u", "e">>

-----------------------------------------------------------------------------
(* The request logging middleware, which every HTTP request passes first *)

Logged(stats) == [stats EXCEPT !.totalRequests = @ + 1]

-----------------------------------------------------------------------------
(* POST /register *)

\* id.substring(0, 8)
Substring08(cs) == SubSeq(cs, 1, IF Len(cs) < 8 THEN Len(cs) ELSE 8)

\* a variant that stamps every registration with the current time
RegisteredAtOf_Reset(existing, t) == t

\* the registeredAt of the record built over `existing` (<<>> or <<record>>)
RegisteredAtOf(existing, t) ==
    IF Len(existing) > 0 THEN existing[1].registeredAt ELSE t

\* a variant that carries the count over without adding to it
ConnectionCountOf_Stuck(existing) ==
    IF Len(existing) > 0 THEN existing[1].connectionCount ELSE 1

\* the connectionCount of the record built over `existing`
ConnectionCountOf(existing) ==
    IF Len(existing) > 0
    THEN (IF existing[1].connectionCount = 0 THEN 0
          ELSE existing[1].connectionCount) + 1
    ELSE 1

\* the record POST /register stores
BuildPeer(req, existing, t) ==
    LET b == req.body
        p == parseInt(b.port)
        capabilities == IF b.capabilities.t = "undefined" THEN Arr(<<>>)
                        ELSE b.capabilities
        version == IF b.version.t = "undefined" THEN Str(DefaultVersion)
                   ELSE b.version
    IN [id |-> b.id,
        ip |-> b.ip,
        port |-> IF p.nan THEN [t |-> "NaN"] ELSE Num(p.n),
        name |-> IF Truthy(b.name) THEN b.name
                 ELSE Str(NamePrefix \o Substring08(b.id.s)),
        version |-> version,
        capabilities |-> IF capabilities.t = "array" THEN capabilities
                         ELSE Arr(<<>>),
        lastSeen |-> t,
        registeredAt |-> RegisteredAtOf(existing, t),
        updatedAt |-> t,
        connectionCount |-> ConnectionCountOf(existing),
        userAgent |-> IF Truthy(req.userAgent) THEN req.userAgent
                      ELSE Str(UnknownAgent),
        ipAddress |-> req.ip]

\* a variant that still counts a record at the window's end as active
IsActive_Inclusive(p, t) == t - p.lastSeen <= activeThreshold

\* now - p.lastSeen < 2 * 60 * 1000
IsActive(p, t) == t - p.lastSeen < activeThreshold

\* a variant that counts every record
ActiveCount_All(m, t) == Len(m)

ActiveCount(m, t) == Cardinality({i \in 1..Len(m) : IsActive(m[i], t)})

\* validatePeerData threw: the catch block answers
RegisterThrows(req, v) ==
    /\ v.threw
    /\ serverStats' = [Logged(serverStats) EXCEPT !.errors = @ + 1]
    /\ response' = [op |-> "register", body |-> req.body, status |-> 500,
                    success |-> FALSE]
    /\ UNCHANGED peers

\* a variant that counts the rejected request as a registration
RegisterRejects_Counts(req, v) ==
    /\ ~v.threw
    /\ Len(v.errors) > 0
    /\ response' = [op |-> "register", body |-> req.body, status |-> 400,
                    success |-> FALSE, details |-> v.errors]
    /\ serverStats' = [Logged(serverStats) EXCEPT !.totalRegistrations = @ + 1]
    /\ UNCHANGED peers

\* validationErrors.length > 0
RegisterRejects(req, v) ==
    /\ ~v.threw
    /\ Len(v.errors) > 0
    /\ response' = [op |-> "register", body |-> req.body, status |-> 400,
                    success |-> FALSE,
                    details |-> v.errors]
    /\ serverStats' = Logged(serverStats)
    /\ UNCHANGED peers

\* the upsert
RegisterStores(req, v) ==
    LET id == req.body.id.s
        existing == IF MapHas(peers, id) THEN <<MapGet(peers, id)>> ELSE <<>>
        peer == BuildPeer(req, existing, now)
    IN /\ ~v.threw
       /\ Len(v.errors) = 0
       /\ peers' = MapSet(peers, id, peer)
       /\ serverStats' = [Logged(serverStats) EXCEPT !.totalRegistrations = @ + 1]
       /\ response' =
            [op |-> "register", body |-> req.body, status |-> 200,
             success |-> TRUE, isUpdate |-> Len(existing) > 0,
             peer |-> [id |-> peer.id, name |-> peer.name,
                       version |-> peer.version,
                       capabilities |-> peer.capabilities,
                       registeredAt |-> peer.registeredAt,
                       updatedAt |-> peer.updatedAt],
             network |-> [totalPeers |-> Len(peers'),
                          activePeers |-> ActiveCount(peers', now)]]

Register(req) ==
    LET v == validatePeerData([id |-> req.body.id, ip |-> req.body.ip,
                               port |-> req.body.port])
    IN /\ \/ RegisterThrows(req, v)
          \/ RegisterRejects(req, v)
          \/ RegisterStores(req, v)
       /\ UNCHANGED <<now, nextSweep>>

-----------------------------------------------------------------------------
(* GET /peers *)

\* a variant whose sort reverses the records that compare equal
TiedAt_Reversed(list, seen) ==
    LET tied == SelectSeq(list, LAMBDA p : p.lastSeen = seen)
    IN [k \in 1..Len(tied) |-> tied[Len(tied) + 1 - k]]

\* peerList.sort is a stable sort: the records the comparator
\* (a, b) => b.lastSeen - a.lastSeen finds equal keep their order
TiedAt(list, seen) == SelectSeq(list, LAMBDA p : p.lastSeen = seen)

\* the records of `list` seen at the instants `times`, latest first
RECURSIVE SortedFrom(_, _)
SortedFrom(list, times) ==
    IF times = {} THEN <<>>
    ELSE LET latest == CHOOSE t \in times : \A u \in times : u <= t
         IN TiedAt(list, latest) \o SortedFrom(list, times \ {latest})

\* peerList.sort((a, b) => b.lastSeen - a.lastSeen)
SortByLastSeen(list) ==
    SortedFrom(list, {list[i].lastSeen : i \in 1..Len(list)})

\* Array.prototype.slice(start, end)
Slice(list, start, end) ==
    LET len == Len(list)
        rel(k) == IF k < 0 THEN (IF len + k < 0 THEN 0 ELSE len + k)
                  ELSE (IF k > len THEN len ELSE k)
    IN SubSeq(list, rel(start) + 1, rel(end))

\* parseInt(x) || d
ParseIntOr(v, d) ==
    LET p == parseInt(v) IN IF p.nan \/ p.n = 0 THEN d ELSE p.n

\* Math.min(parseInt(req.query.limit) || 50, 100)
LimitOf(query) ==
    LET l == ParseIntOr(query.limit, defaultLimit)
    IN IF l < maxLimit THEN l ELSE maxLimit

OffsetOf(query) == ParseIntOr(query.offset, 0)

\* req.query.active === 'true'
ActiveOnlyOf(query) == query.active = Str(TrueChars)

\* peer.capabilities && peer.capabilities.includes(capability)
HasCapability(p, capability) ==
    \E i \in 1..Len(p.capabilities.a) : p.capabilities.a[i] = capability

\* a variant without the version filter
FilteredPeers_AnyVersion(m, query, t) ==
    LET l1 == IF ActiveOnlyOf(query)
              THEN SelectSeq(m, LAMBDA p : IsActive(p, t)) ELSE m
        l2 == IF Truthy(query.capability)
              THEN SelectSeq(l1, LAMBDA p : HasCapability(p, query.capability))
              ELSE l1
    IN SortByLastSeen(l2)

\* the list after the three filters and the sort, before pagination
FilteredPeers(m, query, t) ==
    LET l1 == IF ActiveOnlyOf(query)
              THEN SelectSeq(m, LAMBDA p : IsActive(p, t)) ELSE m
        l2 == IF Truthy(query.capability)
              THEN SelectSeq(l1, LAMBDA p : HasCapability(p, query.capability))
              ELSE l1
        l3 == IF Truthy(query.version)
              THEN SelectSeq(l2, LAMBDA p : p.version = query.version)
              ELSE l2
    IN SortByLastSeen(l3)

\* the fields GET /peers and GET /peers/:id publish
\* a variant that publishes the userAgent too
PublicPeer_WithAgent(p) ==
    [id |-> p.id, ip |-> p.ip, port |-> p.port, name |-> p.name,
     version |-> p.version, capabilities |-> p.capabilities,
     lastSeen |-> p.lastSeen, registeredAt |-> p.registeredAt,
     connectionCount |-> p.connectionCount, userAgent |-> p.userAgent]

PublicPeer(p) ==
    [id |-> p.id, ip |-> p.ip, port |-> p.port, name |-> p.name,
     version |-> p.version, capabilities |-> p.capabilities,
     lastSeen |-> p.lastSeen, registeredAt |-> p.registeredAt,
     connectionCount |-> p.connectionCount]

\* the body GET /peers answers with
ListResponse(m, query, t) ==
    LET list == FilteredPeers(m, query, t)
        limit == LimitOf(query)
        offset == OffsetOf(query)
        page == Slice(list, offset, offset + limit)
    IN [op |-> "list", query |-> query, status |-> 200, success |-> TRUE,
        peers |-> [i \in 1..Len(page) |-> PublicPeer(page[i])],
        pagination |-> [total |-> Len(list), limit |-> limit,
                        offset |-> offset,
                        hasMore |-> offset + limit < Len(list)],
        filters |-> [activeOnly |-> ActiveOnlyOf(query),
                     capability |-> query.capability,
                     version |-> query.version]]

ListPeers(query) ==
    /\ serverStats' = Logged(serverStats)
    /\ response' = ListResponse(peers, query, now)
    /\ UNCHANGED <<peers, now, nextSweep>>

-----------------------------------------------------------------------------
(* GET /peers/:id, DELETE /peers/:id, POST /peers/:id/heartbeat *)

NotFound(op, id) == [op |-> op, id |-> id, status |-> 404, success |-> FALSE]

\* the body GET /peers/:id answers with
GetResponse(m, id) ==
    IF ~MapHas(m, id) THEN NotFound("get", id)
    ELSE [op |-> "get", id |-> id, status |-> 200, success |-> TRUE,
          peer |-> PublicPeer(MapGet(m, id))]

GetPeer(id) ==
    /\ serverStats' = Logged(serverStats)
    /\ response' = GetResponse(peers, id)
    /\ UNCHANGED <<peers, now, nextSweep>>

DeletePeer(id) ==
    /\ serverStats' = Logged(serverStats)
    /\ IF ~MapHas(peers, id)
       THEN /\ response' = NotFound("delete", id)
            /\ UNCHANGED peers
       ELSE /\ peers' = MapDelete(peers, id)
            /\ response' = [op |-> "delete", id |-> id, status |-> 200,
                            success |-> TRUE,
                            peer |-> [id |-> MapGet(peers, id).id,
                                      name |-> MapGet(peers, id).name]]
    /\ UNCHANGED <<now, nextSweep>>

\* a variant that winds lastSeen back to the registration time
Touch_Back(p, t) == [p EXCEPT !.lastSeen = p.registeredAt]

\* a variant that leaves the record as it is
Touch_Skip(p, t) == p

\* a variant that refreshes updatedAt as well
Touch_Both(p, t) == [p EXCEPT !.lastSeen = t, !.updatedAt = t]

\* peer.lastSeen = Date.now()
\* a variant that counts the heartbeat as a connection
Touch_Count(p, t) ==
    [p EXCEPT !.lastSeen = t, !.connectionCount = @ + 1]

Touch(p, t) == [p EXCEPT !.lastSeen = t]

Heartbeat(id) ==
    /\ serverStats' = Logged(serverStats)
    /\ IF ~MapHas(peers, id)
       THEN /\ response' = NotFound("heartbeat", id)
            /\ UNCHANGED peers
       ELSE LET peer == Touch(MapGet(peers, id), now)
            IN /\ peers' = MapSet(peers, id, peer)
               /\ response' = [op |-> "heartbeat", id |-> id, status |-> 200,
                               success |-> TRUE, lastSeen |-> peer.lastSeen]
    /\ UNCHANGED <<now, nextSweep>>

-----------------------------------------------------------------------------
(* cleanupInactivePeers, run by setInterval every sweepInterval ms *)

\* a variant that already removes a record at the threshold
IsInactive_AtThreshold(p, t) == t - p.lastSeen >= inactiveThreshold

\* now - peer.lastSeen > inactiveThreshold
IsInactive(p, t) == t - p.lastSeen > inactiveThreshold

\* a variant whose pass stops after the first record it removes
SweepKeeps_Partial(m, t) ==
    IF \A i \in 1..Len(m) : ~IsInactive(m[i], t) THEN m
    ELSE LET first == CHOOSE i \in 1..Len(m) :
                        /\ IsInactive(m[i], t)
                        /\ \A j \in 1..(i - 1) : ~IsInactive(m[j], t)
         IN SubSeq(m, 1, first - 1) \o SubSeq(m, first + 1, Len(m))

\* the records one pass of the loop leaves in the Map
SweepKeeps(m, t) == SelectSeq(m, LAMBDA p : ~IsInactive(p, t))

\* the "Removed inactive peer" log entries of one pass, in iteration order
SweepLog(m, t) ==
    LET gone == SelectSeq(m, LAMBDA p : IsInactive(p, t))
    IN [i \in 1..Len(gone) |->
          [peerId |-> gone[i].id.s, lastSeen |-> gone[i].lastSeen,
           inactiveFor |-> t - gone[i].lastSeen]]

\* a variant that skips every other period
Rearmed_Late(due) == due + 2 * sweepInterval

\* setInterval arms the timer again sweepInterval ms after it was due
Rearmed(due) == due + sweepInterval

\* the timer is due: the callback removes the inactive records in one pass
cleanupInactivePeers ==
    /\ now = nextSweep
    /\ peers' = SweepKeeps(peers, now)
    /\ response' = [op |-> "cleanup", at |-> now,
                    removed |-> SweepLog(peers, now)]
    /\ nextSweep' = Rearmed(nextSweep)
    /\ UNCHANGED <<serverStats, now>>

-----------------------------------------------------------------------------
(* The clock.  Date.now() does not go back, and a due timer fires before
   the clock moves past it: the handlers are synchronous and short, so the
   event loop runs the interval callback at the millisecond it is due. *)

Instants ==
    {k * sweepInterval : k \in 0..MaxSweeps}
        \cup {sweepInterval - Skew, sweepInterval + Skew}

Tick(t) ==
    /\ t > now
    /\ t <= nextSweep
    /\ now' = t
    /\ response' = [op |-> "tick"]
    /\ UNCHANGED <<peers, serverStats, nextSweep>>

-----------------------------------------------------------------------------
(* The WebSocket server.  `websocketClients` is a Map from whatever value a
   register message carries as peerId to the socket it arrived on: the set
   of its entries [key, ws] (the code never iterates over it, so the order
   of the entries is left out).  Property values of a parsed message that
   are absent are Undefined. *)

ClientsHas(d, key) == \E e \in d : e.key = key

\* websocketClients.get(key) of a key that is there
ClientsGet(d, key) == (CHOOSE e \in d : e.key = key).ws

\* a variant that keeps the socket a key is already bound to
ClientsSet_KeepFirst(d, key, ws) ==
    IF ClientsHas(d, key) THEN d ELSE d \cup {[key |-> key, ws |-> ws]}

\* websocketClients.set(key, ws)
ClientsSet(d, key, ws) ==
    {e \in d : e.key # key} \cup {[key |-> key, ws |-> ws]}

\* websocketClients.delete(key)
ClientsDelete(d, key) == {e \in d : e.key # key}

\* a variant that removes the entry only while it still holds the socket
\* that closed
AfterClose_IfOwn(d, ws, peerId) ==
    IF Truthy(peerId) /\ ClientsHas(d, peerId) /\ ClientsGet(d, peerId) = ws
    THEN ClientsDelete(d, peerId) ELSE d

\* the Map after the close callback of socket ws, whose `peerId` variable
\* holds peerId: if (peerId) websocketClients.delete(peerId)
AfterClose(d, ws, peerId) ==
    IF Truthy(peerId) THEN ClientsDelete(d, peerId) ELSE d

\* a variant that answers with an empty list
PeerList_Empty(m) == [type |-> "peer_list", peers |-> <<>>]

\* the peer_list message a register message is answered with
PeerList(m) ==
    [type |-> "peer_list",
     peers |-> [i \in 1..Len(m) |->
                  [id |-> m[i].id, name |-> m[i].name,
                   capabilities |-> m[i].capabilities,
                   lastSeen |-> m[i].lastSeen]]]

RelayTypes == {"peer_offer", "peer_answer", "ice_candidate"}

\* a variant that names the target as the sender
Forwarded_Reflected(data) ==
    CASE data.type = "peer_offer" ->
            [type |-> "peer_offer", from |-> data.to, offer |-> data.offer]
      [] data.type = "peer_answer" ->
            [type |-> "peer_answer", from |-> data.to, answer |-> data.answer]
      [] data.type = "ice_candidate" ->
            [type |-> "ice_candidate", from |-> data.to,
             candidate |-> data.candidate]

\* a variant that forwards the message without its sender
Forwarded_Anonymous(data) ==
    CASE data.type = "peer_offer" ->
            [type |-> "peer_offer", from |-> Undefined, offer |-> data.offer]
      [] data.type = "peer_answer" ->
            [type |-> "peer_answer", from |-> Undefined,
             answer |-> data.answer]
      [] data.type = "ice_candidate" ->
            [type |-> "ice_candidate", from |-> Undefined,
             candidate |-> data.candidate]

\* the message handlePeerOffer, handlePeerAnswer and handleIceCandidate
\* send to the target
Forwarded(data) ==
    CASE data.type = "peer_offer" ->
            [type |-> "peer_offer", from |-> data.from, offer |-> data.offer]
      [] data.type = "peer_answer" ->
            [type |-> "peer_answer", from |-> data.from,
             answer |-> data.answer]
      [] data.type = "ice_candidate" ->
            [type |-> "ice_candidate", from |-> data.from,
             candidate |-> data.candidate]

\* what a message handler leaves in response: the socket and the parsed
\* message, the messages it sent and the level it logged at
WsHandled(ws, data, sent, level) ==
    [op |-> "ws_message", ws |-> ws, parsed |-> TRUE, data |-> data,
     sent |-> sent, log |-> level]

\* case 'register'
WsRegister(ws, data) ==
    /\ sockets' = [sockets EXCEPT ![ws].peerId = data.peerId]
    /\ websocketClients' = ClientsSet(websocketClients, data.peerId, ws)
    /\ response' = WsHandled(ws, data,
                            <<[to |-> ws, message |-> PeerList(peers)]>>,
                            "info")

\* a variant that forwards only to ids that have a record in `peers`
WsRelay_RegisteredOnly(ws, data) ==
    /\ response' =
          IF /\ ClientsHas(websocketClients, data.to)
             /\ sockets[ClientsGet(websocketClients, data.to)].readyState
                   = "OPEN"
             /\ data.to.t = "string"
             /\ MapHas(peers, data.to.s)
          THEN WsHandled(ws, data,
                         <<[to |-> ClientsGet(websocketClients, data.to),
                            message |-> Forwarded(data)]>>, "info")
          ELSE WsHandled(ws, data, <<>>, "warn")
    /\ UNCHANGED <<websocketClients, sockets>>

\* a variant that tells the sender when the message cannot be delivered
WsRelay_Bounce(ws, data) ==
    /\ response' =
          IF /\ ClientsHas(websocketClients, data.to)
             /\ sockets[ClientsGet(websocketClients, data.to)].readyState
                   = "OPEN"
          THEN WsHandled(ws, data,
                         <<[to |-> ClientsGet(websocketClients, data.to),
                            message |-> Forwarded(data)]>>, "info")
          ELSE WsHandled(ws, data,
                         <<[to |-> ws, message |-> [type |-> "error"]]>>,
                         "warn")
    /\ UNCHANGED <<websocketClients, sockets>>

\* a variant that forwards to the socket of the entry whatever its
\* readyState
WsRelay_AnyState(ws, data) ==
    /\ response' =
          IF ClientsHas(websocketClients, data.to)
          THEN WsHandled(ws, data,
                         <<[to |-> ClientsGet(websocketClients, data.to),
                            message |-> Forwarded(data)]>>, "info")
          ELSE WsHandled(ws, data, <<>>, "warn")
    /\ UNCHANGED <<websocketClients, sockets>>

\* handlePeerOffer, handlePeerAnswer, handleIceCandidate
WsRelay(ws, data) ==
    /\ response' =
          IF /\ ClientsHas(websocketClients, data.to)
             /\ sockets[ClientsGet(websocketClients, data.to)].readyState
                   = "OPEN"
          THEN WsHandled(ws, data,
                        <<[to |-> ClientsGet(websocketClients, data.to),
                           message |-> Forwarded(data)]>>, "info")
          ELSE WsHandled(ws, data, <<>>, "warn")
    /\ UNCHANGED <<websocketClients, sockets>>

\* one message to each socket of a set, in the order of the sockets' numbers
RECURSIVE SetToSeq(_, _)
SetToSeq(set, message) ==
    IF set = {} THEN <<>>
    ELSE LET o == CHOOSE x \in set : \A y \in set : x <= y
         IN <<[to |-> o, message |-> message]>> \o
            SetToSeq(set \ {o}, message)

\* a variant that also tells every other open socket
WsPing_Broadcast(ws, data) ==
    /\ response' =
          WsHandled(ws, data,
                    <<[to |-> ws, message |-> [type |-> "pong"]]>> \o
                    SetToSeq({o \in Sockets :
                                o # ws /\ sockets[o].readyState = "OPEN"},
                             [type |-> "pong"]),
                    "none")
    /\ UNCHANGED <<websocketClients, sockets>>

\* case 'ping'
WsPing(ws, data) ==
    /\ response' = WsHandled(ws, data,
                            <<[to |-> ws, message |-> [type |-> "pong"]]>>,
                            "none")
    /\ UNCHANGED <<websocketClients, sockets>>

\* a variant that tells the sender that the type is not known
WsUnknown_Reply(ws, data) ==
    /\ response' = WsHandled(ws, data,
                            <<[to |-> ws, message |-> [type |-> "error"]]>>,
                            "warn")
    /\ UNCHANGED <<websocketClients, sockets>>

\* default: of the switch
WsUnknown(ws, data) ==
    /\ response' = WsHandled(ws, data, <<>>, "warn")
    /\ UNCHANGED <<websocketClients, sockets>>

\* a variant that closes the socket whose message does not parse
WsUnparsed_Close(ws) ==
    /\ response' = [op |-> "ws_message", ws |-> ws, parsed |-> FALSE,
                    sent |-> <<>>, log |-> "error"]
    /\ sockets' = [sockets EXCEPT ![ws].readyState = "CLOSING"]
    /\ UNCHANGED websocketClients

\* catch (error) of the handler, for a message JSON.parse throws on
WsUnparsed(ws) ==
    /\ response' = [op |-> "ws_message", ws |-> ws, parsed |-> FALSE,
                    sent |-> <<>>, log |-> "error"]
    /\ UNCHANGED <<websocketClients, sockets>>

\* ws.on('message'): message is the text received, with the value
\* JSON.parse gives for it when it parses
WsMessage(ws, message) ==
    /\ sockets[ws].readyState = "OPEN"
    /\ IF ~message.parses
       THEN WsUnparsed(ws)
       ELSE LET data == message.data
            IN CASE data.type = "register" -> WsRegister(ws, data)
                 [] data.type \in RelayTypes -> WsRelay(ws, data)
                 [] data.type = "ping" -> WsPing(ws, data)
                 [] OTHER -> WsUnknown(ws, data)
    /\ UNCHANGED <<peers, serverStats, now, nextSweep, inflight, lifecycle>>

\* wss.on('connection')
WsConnection(ws) ==
    /\ sockets[ws].readyState = "NONE"
    /\ sockets' = [sockets EXCEPT ![ws] =
                      [readyState |-> "OPEN", peerId |-> Null]]
    /\ response' = [op |-> "ws_connection", ws |-> ws, log |-> "info"]
    /\ UNCHANGED <<peers, serverStats, now, nextSweep, inflight, lifecycle,
                   websocketClients>>

\* the closing handshake of a socket has begun or its connection is lost:
\* its readyState is CLOSING until the close event is emitted
WsClosing(ws) ==
    /\ sockets[ws].readyState = "OPEN"
    /\ sockets' = [sockets EXCEPT ![ws].readyState = "CLOSING"]
    /\ response' = [op |-> "ws_closing", ws |-> ws]
    /\ UNCHANGED <<peers, serverStats, now, nextSweep, inflight, lifecycle,
                   websocketClients>>

\* ws.on('close')
WsClose(ws) ==
    /\ sockets[ws].readyState \in {"OPEN", "CLOSING"}
    /\ sockets' = [sockets EXCEPT ![ws].readyState = "CLOSED"]
    /\ websocketClients' =
          AfterClose(websocketClients, ws, sockets[ws].peerId)
    /\ response' = [op |-> "ws_close", ws |-> ws,
                    peerId |-> sockets[ws].peerId,
                    log |-> IF Truthy(sockets[ws].peerId) THEN "info"
                            ELSE "none"]
    /\ UNCHANGED <<peers, serverStats, now, nextSweep, inflight, lifecycle>>

\* a variant that does what the close callback does
WsError_Unbind(ws) ==
    /\ sockets[ws].readyState \in {"OPEN", "CLOSING"}
    /\ sockets' = [sockets EXCEPT ![ws].readyState = "CLOSED"]
    /\ websocketClients' =
          AfterClose(websocketClients, ws, sockets[ws].peerId)
    /\ response' = [op |-> "ws_error", ws |-> ws,
                    peerId |-> sockets[ws].peerId, log |-> "error"]
    /\ UNCHANGED <<peers, serverStats, now, nextSweep, inflight, lifecycle>>

\* ws.on('error'): the callback logs; the socket may be OPEN still or
\* CLOSING already when it runs
WsError(ws) ==
    /\ sockets[ws].readyState \in {"OPEN", "CLOSING"}
    /\ \E readyState \in {sockets[ws].readyState, "CLOSING"} :
          sockets' = [sockets EXCEPT ![ws].readyState = readyState]
    /\ response' = [op |-> "ws_error", ws |-> ws,
                    peerId |-> sockets[ws].peerId, log |-> "error"]
    /\ UNCHANGED <<peers, serverStats, now, nextSweep, inflight, lifecycle,
                   websocketClients>>

-----------------------------------------------------------------------------
(* The requests of the model *)

IdAlpha == <<"p", "e", "e", "r", "_", "a", "l", "p", "h", "a">>
IdBravo == <<"p", "e", "e", "r", "_", "b", "r", "a", "v", "o", "2">>
IdShort == <<"p", "e", "e", "r", "_", "t", "i", "n", "y">>

Ip4 == <<"1", "0", ".", "0", ".", "0", ".", "2", "5", "5">>
Ip6 == <<":", ":", "1">>
IpBadOctet == <<"1", "0", ".", "0", ".", "0", ".", "2", "5", "6">>
IpHost == <<"h", "o", "s", "t">>

Port8080 == <<"8", "0", "8", "0">>
PortWord == <<"h", "t", "t", "p">>
PortBinary == <<"0", "b", "1", "1">>

WebSocketCap == <<"w", "e", "b", "s", "o", "c", "k", "e", "t">>
Version2 == <<"2", ".", "0", ".", "0">>
NodeName == <<"N", "o", "d", "e">>
Agent == <<"c", "u", "r", "l">>
ClientIp == <<"1", "2", "7", ".", "0", ".", "0", ".", "1">>

\* the inputs of validatePeerData, each with whether the field is a valid one
IdInputs ==
    <<[v |-> Str(IdAlpha), valid |-> TRUE],
      [v |-> Str(IdBravo), valid |-> TRUE],
      [v |-> Str(IdShort), valid |-> FALSE],
      [v |-> Undefined, valid |-> FALSE],
      [v |-> Num(1234567890), valid |-> FALSE]>>

IpInputs ==
    <<[v |-> Str(Ip4), valid |-> TRUE],
      [v |-> Str(Ip6), valid |-> TRUE],
      [v |-> Str(IpBadOctet), valid |-> FALSE],
      [v |-> Str(IpHost), valid |-> FALSE],
      [v |-> Str(<<>>), valid |-> FALSE],
      [v |-> Undefined, valid |-> FALSE],
      [v |-> Num(167772415), valid |-> FALSE]>>

PortInputs ==
    <<[v |-> Num(1), valid |-> TRUE],
      [v |-> Num(65535), valid |-> TRUE],
      [v |-> Str(Port8080), valid |-> TRUE],
      [v |-> Bool(TRUE), valid |-> TRUE],
      [v |-> Str(PortBinary), valid |-> TRUE],
      [v |-> Bool(FALSE), valid |-> FALSE],
      [v |-> Num(0), valid |-> FALSE],
      [v |-> Num(65536), valid |-> FALSE],
      [v |-> Num(-1), valid |-> FALSE],
      [v |-> Str(PortWord), valid |-> FALSE],
      [v |-> Undefined, valid |-> FALSE]>>

RegisterRequest(id, ip, port, name, capabilities, version) ==
    [body |-> [id |-> id, ip |-> ip, port |-> port, name |-> name,
               capabilities |-> capabilities, version |-> version],
     userAgent |-> Str(Agent), ip |-> Str(ClientIp)]

\* every combination of the field inputs, with the optional fields absent
ValidationRequests ==
    {RegisterRequest(IdInputs[i].v, IpInputs[j].v, PortInputs[k].v,
                     Undefined, Undefined, Undefined) :
        i \in 1..Len(IdInputs), j \in 1..Len(IpInputs), k \in 1..Len(PortInputs)}

\* the register requests of the registry runs
RegisterRequests ==
    {RegisterRequest(Str(IdAlpha), Str(Ip4), Num(65535), Undefined,
                     Arr(<<Str(WebSocketCap)>>), Undefined),
     RegisterRequest(Str(IdBravo), Str(Ip6), Str(Port8080), Str(NodeName),
                     Undefined, Str(Version2)),
     RegisterRequest(Str(IdAlpha), Undefined, Undefined, Undefined,
                     Undefined, Undefined),
     RegisterRequest(Str(IdBravo), Num(167772415), Num(1), Undefined,
                     Undefined, Undefined)}

PathIds == {IdAlpha, IdBravo}

Query(limit, active, capability, version, offset) ==
    [limit |-> limit, active |-> active, capability |-> capability,
     version |-> version, offset |-> offset]

Queries ==
    {Query(Undefined, Undefined, Undefined, Undefined, Undefined),
     Query(Undefined, Str(TrueChars), Undefined, Undefined, Undefined)}

\* the decimal digits of a natural number
RECURSIVE NatChars(_)
NatChars(k) ==
    IF k < 10 THEN <<DigitChars[k + 1]>>
    ELSE Append(NatChars(k \div 10), DigitChars[(k % 10) + 1])

IdStem == <<"p", "e", "e", "r", "_", "n", "o", "d", "e", "_">>
RelayCap == <<"r", "e", "l", "a", "y">>

\* the instants at which the listed records were last seen, and the time of
\* the listing: ages of three minutes, two minutes (the window's end) and 0
ListTimes == {0, sweepInterval, 3 * sweepInterval}
ListNow == 3 * sweepInterval

\* the i-th register request of the listing runs
ListRegisterRequest(i) ==
    RegisterRequest(Str(IdStem \o NatChars(i)), Str(Ip4), Num(8000 + i),
                    Undefined,
                    IF i % 2 = 1 THEN Arr(<<Str(WebSocketCap)>>)
                    ELSE Arr(<<Str(RelayCap), Str(WebSocketCap)>>),
                    IF i % 3 = 1 THEN Undefined ELSE Str(Version2))

\* the record POST /register leaves for the i-th request: registered at 0
\* and, when seen later, registered again at `seen`
ListRecord(i, seen) ==
    LET first == BuildPeer(ListRegisterRequest(i), <<>>, 0)
    IN IF seen = 0 THEN first
       ELSE BuildPeer(ListRegisterRequest(i), <<first>>, seen)

\* registries of up to MaxListPeers records in creation order, with every
\* assignment of last-seen times, and one registry of 120 records
ListRegistries ==
    UNION {{[i \in 1..n |-> ListRecord(i, seen[i])] :
               seen \in [1..n -> ListTimes]} : n \in 0..MaxListPeers}
      \cup {[i \in 1..120 |->
                ListRecord(i, IF i % 4 = 0 THEN sweepInterval
                              ELSE IF i % 7 = 0 THEN ListNow ELSE 0)]}

\* the registrations that built a registry
Registrations(m) ==
    Len(m) + Cardinality({i \in 1..Len(m) : m[i].connectionCount > 1})

LimitInputs ==
    {Undefined, Str(<<"5", "0">>), Str(<<"0">>), Str(<<"-", "5">>),
     Str(<<"a", "b", "c">>), Str(<<"1", "5", "0">>), Str(<<"1", "0", "0">>),
     Str(<<"1">>), Str(<<"2">>)}

OffsetInputs ==
    {Undefined, Str(<<"0">>), Str(<<"1", "0", "0">>), Str(<<"1">>),
     Str(<<"-", "1">>), Str(<<"7", "0">>)}

\* every limit with every offset, and every combination of filters on
\* pages of one, two and fifty records
ListQueries ==
    {Query(l, Undefined, Undefined, Undefined, o) :
        l \in LimitInputs, o \in OffsetInputs}
      \cup {Query(l, a, c, v, o) :
               l \in {Undefined, Str(<<"1">>), Str(<<"2">>)},
               a \in {Undefined, Str(TrueChars), Str(<<"1">>)},
               c \in {Undefined, Str(RelayCap)},
               v \in {Undefined, Str(Version2)},
               o \in {Undefined, Str(<<"1">>)}}

\* the requests of a batch
RegisterOf(req) == [kind |-> "register", req |-> req]
ListOf(query) == [kind |-> "list", query |-> query]
GetOf(id) == [kind |-> "get", id |-> id]
DeleteOf(id) == [kind |-> "delete", id |-> id]
HeartbeatOf(id) == [kind |-> "heartbeat", id |-> id]

RegisterAlpha ==
    RegisterOf(RegisterRequest(Str(IdAlpha), Str(Ip4), Num(65535), Undefined,
                               Arr(<<Str(WebSocketCap)>>), Undefined))
RegisterBravo ==
    RegisterOf(RegisterRequest(Str(IdBravo), Str(Ip6), Str(Port8080),
                               Str(NodeName), Undefined, Str(Version2)))

\* the batches of requests in flight together: three registrations of
\* distinct ids, three of one id, and reads, a heartbeat and a delete
\* among registrations
Batches ==
    {<<RegisterAlpha, RegisterBravo, RegisterOf(ListRegisterRequest(1))>>,
     <<RegisterAlpha, RegisterAlpha, RegisterAlpha>>,
     <<RegisterAlpha, RegisterAlpha, RegisterBravo>>,
     <<RegisterAlpha, GetOf(IdAlpha), RegisterAlpha>>,
     <<RegisterAlpha, RegisterBravo,
       ListOf(Query(Undefined, Undefined, Undefined, Undefined, Undefined))>>,
     <<RegisterAlpha, HeartbeatOf(IdAlpha), GetOf(IdAlpha)>>,
     <<RegisterAlpha, DeleteOf(IdAlpha), GetOf(IdAlpha)>>}

\* WebSocket messages
OfferX == <<"s", "d", "p", "-", "x">>
AnswerY == <<"s", "d", "p", "-", "y">>
CandidateZ == <<"c", "a", "n", "d">>

WsData(type, peerId, from, to, offer, answer, candidate) ==
    [parses |-> TRUE,
     data |-> [type |-> type, peerId |-> peerId, from |-> from, to |-> to,
               offer |-> offer, answer |-> answer, candidate |-> candidate]]

WsRegisterMessage(peerId) ==
    WsData("register", peerId, Undefined, Undefined, Undefined, Undefined,
           Undefined)

WsOffer(from, to) ==
    WsData("peer_offer", Undefined, from, to, Str(OfferX), Undefined,
           Undefined)

\* register with either id and with none; offers with the sender's id, with
\* another id and with none as `from`; an answer and a candidate; ping; a
\* type the switch does not know; text that is not JSON
WsMessages ==
    {WsRegisterMessage(Str(IdAlpha)), WsRegisterMessage(Str(IdBravo)),
     WsRegisterMessage(Undefined),
     WsOffer(Str(IdAlpha), Str(IdBravo)), WsOffer(Undefined, Str(IdBravo)),
     WsOffer(Str(IdBravo), Str(IdAlpha)),
     WsData("peer_answer", Undefined, Str(IdBravo), Str(IdAlpha), Undefined,
            Str(AnswerY), Undefined),
     WsData("ice_candidate", Undefined, Str(IdAlpha), Str(IdBravo), Undefined,
            Undefined, Str(CandidateZ)),
     WsData("ping", Undefined, Undefined, Undefined, Undefined, Undefined,
            Undefined),
     WsData("hello", Undefined, Undefined, Undefined, Undefined, Undefined,
            Undefined),
     [parses |-> FALSE]}

-----------------------------------------------------------------------------
(* The v1 server (src/unnamed/part_001), whose README is
   src/unnamed/part_000: its own `peers` Map, POST /register and
   GET /peers.  Its records have six fields. *)

legacyDefaultLimit == 50

\* the record POST /register of the v1 server stores
LegacyBuildPeer(body, existing, t) ==
    [id |-> body.id,
     ip |-> body.ip,
     port |-> Num(parseInt(body.port).n),
     name |-> IF Truthy(body.name) THEN body.name
              ELSE Str(NamePrefix \o Substring08(body.id.s)),
     lastSeen |-> t,
     registeredAt |-> IF Len(existing) > 0 THEN existing[1].registeredAt
                      ELSE t]

\* parseInt(req.query.limit) || 50
LegacyLimitOf(query) == ParseIntOr(query.limit, legacyDefaultLimit)

\* peerList.sort is a stable sort: the records the comparator
\* (a, b) => b.registeredAt - a.registeredAt finds equal keep their order
LegacyTiedAt(list, registered) ==
    SelectSeq(list, LAMBDA p : p.registeredAt = registered)

RECURSIVE LegacySortedFrom(_, _)
LegacySortedFrom(list, times) ==
    IF times = {} THEN <<>>
    ELSE LET latest == CHOOSE t \in times : \A u \in times : u <= t
         IN LegacyTiedAt(list, latest) \o
            LegacySortedFrom(list, times \ {latest})

\* peerList.sort((a, b) => b.registeredAt - a.registeredAt)
LegacySortByRegisteredAt(list) ==
    LegacySortedFrom(list, {list[i].registeredAt : i \in 1..Len(list)})

\* the fields GET /peers of the v1 server publishes
LegacyPublicPeer(p) ==
    [id |-> p.id, ip |-> p.ip, port |-> p.port, name |-> p.name,
     lastSeen |-> p.lastSeen, registeredAt |-> p.registeredAt]

\* the body GET /peers of the v1 server answers with
LegacyListResponse(m, query, t) ==
    LET limit == LegacyLimitOf(query)
        listed == IF ActiveOnlyOf(query)
                  THEN SelectSeq(m, LAMBDA p : t - p.lastSeen < activeThreshold)
                  ELSE m
        page == Slice(LegacySortByRegisteredAt(listed), 0, limit)
    IN [op |-> "v1_list", query |-> query, status |-> 200, success |-> TRUE,
        count |-> Len(page), total |-> Len(m),
        peers |-> [i \in 1..Len(page) |-> LegacyPublicPeer(page[i])]]

\* app.get('/peers') of the v1 server
LegacyListPeers(query) ==
    /\ response' = LegacyListResponse(peers, query, now)
    /\ UNCHANGED <<peers, serverStats, now, nextSweep>>

\* the i-th record of a v1 registry: registered at the start or a second
\* after it and, when it was seen later, registered again then
LegacyRecord(i, seen) ==
    LET body == [id |-> Str(IdStem \o NatChars(i)), ip |-> Str(Ip4),
                 port |-> Num(8000 + i), name |-> Undefined]
        first == LegacyBuildPeer(body, <<>>,
                                 IF seen = 0 THEN 0 ELSE (i % 2) * 1000)
    IN IF seen = 0 THEN first ELSE LegacyBuildPeer(body, <<first>>, seen)

\* the registries of up to MaxListPeers records, and one of 60
LegacyRegistries ==
    UNION {{[i \in 1..n |-> LegacyRecord(i, seen[i])] :
               seen \in [1..n -> ListTimes]} : n \in 0..MaxListPeers}
      \cup {[i \in 1..60 |->
                LegacyRecord(i, IF i % 4 = 0 THEN sweepInterval
                                ELSE IF i % 7 = 0 THEN ListNow ELSE 0)]}

LegacyQueries ==
    {[limit |-> limit, active |-> active] :
        limit \in LimitInputs, active \in {Undefined, Str(TrueChars)}}

-----------------------------------------------------------------------------
(* The server *)

Init ==
    /\ peers = <<>>
    /\ serverStats = [totalRegistrations |-> 0, totalRequests |-> 0,
                      errors |-> 0]
    /\ now = 0
    /\ nextSweep = Rearmed(0)
    /\ response = [op |-> "start"]
    /\ inflight = <<>>
    /\ websocketClients = {}
    /\ lifecycle = Listening
    /\ sockets = [ws \in Sockets |-> [readyState |-> "NONE", peerId |-> Null]]

\* the run has room for one more HTTP request
Admitted == serverStats.totalRequests < MaxRequests

\* a step of the registry alone: the request is handled as it arrives and
\* no WebSocket event happens
RegistryOnly ==
    UNCHANGED <<inflight, websocketClients, sockets, lifecycle>>

Next ==
    \/ \E req \in RegisterRequests : Admitted /\ Register(req) /\ RegistryOnly
    \/ \E query \in Queries : Admitted /\ ListPeers(query) /\ RegistryOnly
    \/ \E id \in PathIds : Admitted /\ GetPeer(id) /\ RegistryOnly
    \/ \E id \in PathIds : Admitted /\ DeletePeer(id) /\ RegistryOnly
    \/ \E id \in PathIds : Admitted /\ Heartbeat(id) /\ RegistryOnly
    \/ cleanupInactivePeers /\ RegistryOnly
    \/ \E t \in Instants : Tick(t) /\ RegistryOnly

Spec == Init /\ [][Next]_vars

\* validatePeerData and POST /register alone, over every combination of
\* field inputs
NextValidation ==
    \E req \in ValidationRequests :
        /\ serverStats.totalRequests < MaxValidations
        /\ Register(req)
        /\ RegistryOnly

SpecValidation == Init /\ [][NextValidation]_vars

\* the WebSocket server alone
NextSignaling ==
    \/ \E ws \in Sockets : WsConnection(ws)
    \/ \E ws \in Sockets : \E message \in WsMessages : WsMessage(ws, message)
    \/ \E ws \in Sockets : WsClosing(ws)
    \/ \E ws \in Sockets : WsClose(ws)
    \/ \E ws \in Sockets : WsError(ws)

SpecSignaling == Init /\ [][NextSignaling]_vars

\* the registry and the WebSocket server together, from five minutes after
\* the start, with no record or with the record of a registration at the
\* start: the HTTP requests for one id, the cleanup timer, and sockets
\* that register as that id and send offers to it
ServerMessages ==
    {WsRegisterMessage(Str(IdAlpha)), WsOffer(Str(IdBravo), Str(IdAlpha))}

InitServer ==
    /\ peers \in {<<>>, <<BuildPeer(RegisterAlpha.req, <<>>, 0)>>}
    /\ serverStats = [totalRegistrations |-> Len(peers),
                      totalRequests |-> Len(peers), errors |-> 0]
    /\ now = 5 * sweepInterval
    /\ nextSweep = Rearmed(now)
    /\ response = [op |-> "tick"]
    /\ inflight = <<>>
    /\ websocketClients = {}
    /\ lifecycle = Listening
    /\ sockets = [ws \in Sockets |-> [readyState |-> "NONE", peerId |-> Null]]

NextServer ==
    \/ Admitted /\ Register(RegisterAlpha.req) /\ RegistryOnly
    \/ Admitted /\ Heartbeat(IdAlpha) /\ RegistryOnly
    \/ Admitted /\ DeletePeer(IdAlpha) /\ RegistryOnly
    \/ cleanupInactivePeers /\ RegistryOnly
    \/ \E t \in Instants : Tick(t) /\ RegistryOnly
    \/ \E ws \in Sockets : WsConnection(ws)
    \/ \E ws \in Sockets : \E message \in ServerMessages :
          WsMessage(ws, message)
    \/ \E ws \in Sockets : WsClose(ws)

SpecServer == InitServer /\ [][NextServer]_vars

\* HTTP requests in flight.  A request is received, its body is read, and
\* then its route handler runs; the handlers contain no await and no
\* callback, so the event loop runs each of them, and each pass of the
\* cleanup timer, from its first statement to its last before it starts
\* another.  The requests of a batch are in flight together and their
\* handlers run in any order, at any time.
Handle(i) ==
    LET request == inflight[i].request
    IN /\ ~inflight[i].handled
       /\ \/ request.kind = "register" /\ Register(request.req)
          \/ request.kind = "list" /\ ListPeers(request.query)
          \/ request.kind = "get" /\ GetPeer(request.id)
          \/ request.kind = "delete" /\ DeletePeer(request.id)
          \/ request.kind = "heartbeat" /\ Heartbeat(request.id)
       /\ inflight' = [inflight EXCEPT ![i] =
                          [request |-> request, handled |-> TRUE,
                           seq |-> serverStats'.totalRequests, at |-> now,
                           sweepDue |-> nextSweep, answer |-> response']]
       /\ UNCHANGED <<websocketClients, sockets, lifecycle>>

InitConcurrent ==
    /\ peers = <<>>
    /\ serverStats = [totalRegistrations |-> 0, totalRequests |-> 0,
                      errors |-> 0]
    /\ now = 0
    /\ nextSweep = Rearmed(0)
    /\ response = [op |-> "start"]
    /\ \E batch \in Batches :
          inflight = [i \in 1..Len(batch) |->
                        [request |-> batch[i], handled |-> FALSE, seq |-> 0,
                         at |-> 0, sweepDue |-> 0, answer |-> [op |-> "none"]]]
    /\ websocketClients = {}
    /\ lifecycle = Listening
    /\ sockets = [ws \in Sockets |-> [readyState |-> "NONE", peerId |-> Null]]

NextConcurrent ==
    \/ \E i \in 1..Len(inflight) : Handle(i)
    \/ cleanupInactivePeers /\ RegistryOnly
    \/ \E t \in Instants : Tick(t) /\ RegistryOnly

SpecConcurrent == InitConcurrent /\ [][NextConcurrent]_vars

\* GET /peers alone, once over each registry of ListRegistries
\* reads of registries that differ in what the registering requests
\* carried outside their bodies: the User-Agent header (one, or none) and
\* the address of the client.  IdAlpha was registered at the start and
\* IdBravo one minute later, and it is three minutes after the start.
OtherClientIp == <<"1", "0", ".", "9", ".", "9", ".", "9">>

Agents == {Str(Agent), Undefined}

Addresses == {Str(ClientIp), Str(OtherClientIp)}

ReadRecord(req, agent, address, seen) ==
    BuildPeer([req EXCEPT !.userAgent = agent, !.ip = address], <<>>, seen)

ReadRegistries ==
    {<<ReadRecord(RegisterAlpha.req, a1, i1, 0),
       ReadRecord(RegisterBravo.req, a2, i2, sweepInterval)>> :
        a1 \in Agents, i1 \in Addresses, a2 \in Agents, i2 \in Addresses}

ReadQueries ==
    {Query(Undefined, Undefined, Undefined, Undefined, Undefined),
     Query(Undefined, Str(TrueChars), Undefined, Undefined, Undefined),
     Query(Undefined, Undefined, Str(WebSocketCap), Undefined, Undefined),
     Query(Undefined, Undefined, Undefined, Str(Version2), Undefined)}

InitReads ==
    /\ peers \in ReadRegistries
    /\ serverStats = [totalRegistrations |-> Len(peers),
                      totalRequests |-> Len(peers), errors |-> 0]
    /\ now = 3 * sweepInterval
    /\ nextSweep = Rearmed(now)
    /\ response = [op |-> "tick"]
    /\ inflight = <<>>
    /\ websocketClients = {}
    /\ lifecycle = Listening
    /\ sockets = [ws \in Sockets |-> [readyState |-> "NONE", peerId |-> Null]]

NextReads ==
    \/ \E query \in ReadQueries : Admitted /\ ListPeers(query) /\ RegistryOnly
    \/ \E id \in PathIds \cup {IdShort} :
          Admitted /\ GetPeer(id) /\ RegistryOnly
    \/ \E ws \in Sockets : WsConnection(ws)
    \/ \E ws \in Sockets : WsMessage(ws, WsRegisterMessage(Str(IdAlpha)))

SpecReads == InitReads /\ [][NextReads]_vars

\* gracefulShutdown and the end of the process.  A connection of the HTTP
\* server is open while its request is in flight and while its WebSocket
\* has not closed; server.close calls back once none is open.
gracePeriod == 10000

Signals == {"SIGTERM", "SIGINT"}

\* an HTTP request is in flight or a WebSocket is open or closing
ConnectionsOpen ==
    \/ \E i \in 1..Len(inflight) : ~inflight[i].handled
    \/ \E ws \in Sockets : sockets[ws].readyState \in {"OPEN", "CLOSING"}

\* gracefulShutdown(signal): server.close(callback) and
\* setTimeout(..., 10000); a second signal adds a later timer, which the
\* first one precedes
gracefulShutdown(signal) ==
    /\ lifecycle.phase \in {"running", "closing"}
    /\ lifecycle' =
          IF lifecycle.phase = "running"
          THEN [phase |-> "closing", listening |-> FALSE,
                deadline |-> now + gracePeriod, code |-> 0]
          ELSE lifecycle
    /\ response' = [op |-> "shutdown", signal |-> signal, log |-> "info"]
    /\ UNCHANGED <<peers, serverStats, now, nextSweep, inflight,
                   websocketClients, sockets>>

\* the callback of server.close: process.exit(0)
ServerClosed ==
    /\ lifecycle.phase = "closing"
    /\ ~ConnectionsOpen
    /\ lifecycle' = [lifecycle EXCEPT !.phase = "exited", !.code = 0]
    /\ response' = [op |-> "server_closed", log |-> "info"]
    /\ UNCHANGED <<peers, serverStats, now, nextSweep, inflight,
                   websocketClients, sockets>>

\* the callback of the timer: process.exit(1)
ForcedShutdown ==
    /\ lifecycle.phase = "closing"
    /\ now = lifecycle.deadline
    /\ lifecycle' = [lifecycle EXCEPT !.phase = "exited", !.code = 1]
    /\ response' = [op |-> "forced_shutdown", log |-> "error"]
    /\ UNCHANGED <<peers, serverStats, now, nextSweep, inflight,
                   websocketClients, sockets>>

\* the time passes until the timer of gracefulShutdown is due
GraceElapses ==
    /\ lifecycle.phase = "closing"
    /\ Tick(lifecycle.deadline)
    /\ RegistryOnly

\* the requests in flight when the signal comes: none, one, two
ShutdownBatches ==
    {<<>>, <<RegisterAlpha>>, <<RegisterAlpha, GetOf(IdAlpha)>>}

InitShutdown ==
    /\ peers = <<>>
    /\ serverStats = [totalRegistrations |-> 0, totalRequests |-> 0,
                      errors |-> 0]
    /\ now = 0
    /\ nextSweep = Rearmed(0)
    /\ response = [op |-> "start"]
    /\ \E batch \in ShutdownBatches :
          inflight = [i \in 1..Len(batch) |->
                        [request |-> batch[i], handled |-> FALSE, seq |-> 0,
                         at |-> 0, sweepDue |-> 0, answer |-> [op |-> "none"]]]
    /\ websocketClients = {}
    /\ lifecycle = Listening
    /\ sockets = [ws \in Sockets |-> [readyState |-> "NONE", peerId |-> Null]]

\* until the process exits its handlers run; connections are accepted
\* while the server listens
NextShutdown ==
    \/ \E signal \in Signals : gracefulShutdown(signal)
    \/ \E i \in 1..Len(inflight) : lifecycle.phase # "exited" /\ Handle(i)
    \/ \E ws \in Sockets : lifecycle.listening /\ WsConnection(ws)
    \/ \E ws \in Sockets :
          /\ lifecycle.phase # "exited"
          /\ WsMessage(ws, WsRegisterMessage(Str(IdAlpha)))
    \/ \E ws \in Sockets : lifecycle.phase # "exited" /\ WsClose(ws)
    \/ GraceElapses
    \/ ServerClosed
    \/ ForcedShutdown

\* the clock goes on and the event loop runs the callbacks that are due;
\* when requests finish and when clients close their sockets is up to the
\* clients
SpecShutdown ==
    /\ InitShutdown
    /\ [][NextShutdown]_vars
    /\ WF_vars(GraceElapses)
    /\ WF_vars(ServerClosed)
    /\ WF_vars(ForcedShutdown)

\* the v1 server: one GET /peers over each of its registries
InitLegacy ==
    /\ peers \in LegacyRegistries
    /\ serverStats = [totalRegistrations |-> 0, totalRequests |-> 0,
                      errors |-> 0]
    /\ now = ListNow
    /\ nextSweep = Rearmed(ListNow)
    /\ response = [op |-> "tick"]
    /\ inflight = <<>>
    /\ websocketClients = {}
    /\ lifecycle = Listening
    /\ sockets = [ws \in Sockets |-> [readyState |-> "NONE", peerId |-> Null]]

NextLegacy ==
    \E query \in LegacyQueries :
        /\ response.op # "v1_list"
        /\ LegacyListPeers(query)
        /\ RegistryOnly

SpecLegacy == InitLegacy /\ [][NextLegacy]_vars

InitList ==
    /\ peers \in ListRegistries
    /\ serverStats = [totalRegistrations |-> Registrations(peers),
                      totalRequests |-> Registrations(peers), errors |-> 0]
    /\ now = ListNow
    /\ nextSweep = Rearmed(ListNow)
    /\ response = [op |-> "tick"]
    /\ inflight = <<>>
    /\ websocketClients = {}
    /\ lifecycle = Listening
    /\ sockets = [ws \in Sockets |-> [readyState |-> "NONE", peerId |-> Null]]

NextList ==
    \E query \in ListQueries :
        /\ response.op # "list"
        /\ ListPeers(query)
        /\ RegistryOnly

SpecList == InitList /\ [][NextList]_vars

-----------------------------------------------------------------------------
(* Properties *)

\* the step just taken was handled by `op` (every handler writes response,
\* and the request counter or the timer moves, so such a step never stutters)
StepOf(op) == response'.op = op /\ vars' # vars

RegisteredStep == StepOf("register") /\ response'.status = 200

Survivors == MapKeys(peers) \cap MapKeys(peers')

\* C1: while a record for an id exists, its registeredAt is the time of the
\* successful Register that created it and no later step changes it.
C1_RegisteredAtImmutable ==
    [][/\ \A id \in Survivors :
            MapGet(peers', id).registeredAt = MapGet(peers, id).registeredAt
       /\ \A id \in MapKeys(peers') \ MapKeys(peers) :
            /\ RegisteredStep
            /\ response'.body.id.s = id
            /\ MapGet(peers', id).registeredAt = now]_vars

\* a later registration of the same id has answered with the original time
C1_Witness ==
    /\ response.op = "register"
    /\ response.status = 200
    /\ response.isUpdate
    /\ response.peer.registeredAt < now
    /\ MapGet(peers, response.body.id.s).registeredAt = response.peer.registeredAt
    /\ MapGet(peers, response.body.id.s).lastSeen = now

\* C2: the Register that creates a record sets connectionCount to 1, every
\* later successful Register of that id adds exactly 1, and no other step
\* changes the count of a record that stays.
C2_ConnectionCount ==
    [][/\ \A id \in MapKeys(peers') \ MapKeys(peers) :
            MapGet(peers', id).connectionCount = 1
       /\ \A id \in Survivors :
            MapGet(peers', id).connectionCount =
                MapGet(peers, id).connectionCount
                    + (IF RegisteredStep /\ response'.body.id.s = id
                       THEN 1 ELSE 0)
       /\ RegisteredStep => response'.body.id.s \in MapKeys(peers')]_vars

\* an id has been registered three times in a row
C2_Witness ==
    \E id \in MapKeys(peers) :
        /\ MapGet(peers, id).connectionCount = 3
        /\ serverStats.totalRegistrations = 3

\* C3: the lastSeen of a record that stays in the registry never decreases,
\* whatever step is taken (the clock does not go back).
C3_LastSeenMonotone ==
    [][\A id \in Survivors :
          MapGet(peers', id).lastSeen >= MapGet(peers, id).lastSeen]_vars

\* a heartbeat has moved lastSeen forward, past registeredAt
C3_Witness ==
    /\ response.op = "heartbeat"
    /\ response.status = 200
    /\ MapGet(peers, response.id).lastSeen > MapGet(peers, response.id).registeredAt

\* the fields of the request that the validation inputs call valid
ValidInput(inputs, v) ==
    \E i \in 1..Len(inputs) : inputs[i].valid /\ inputs[i].v = v

\* the violation list a response reports (none when it is not a 400)
ReportedViolations(r) == IF r.status = 400 THEN r.details ELSE <<>>

Reports(r, messages) ==
    \E i \in 1..Len(ReportedViolations(r)) : ReportedViolations(r)[i] \in messages

\* C4: for every combination of valid and invalid id, ip and port, the
\* failure lists a violation for each invalid field and none for a valid
\* one, and Register succeeds exactly when all three fields are valid.
C4_AllViolationsReported ==
    response.op = "register" =>
        LET idOk == ValidInput(IdInputs, response.body.id)
            ipOk == ValidInput(IpInputs, response.body.ip)
            portOk == ValidInput(PortInputs, response.body.port)
        IN /\ Reports(response, {"Invalid peer ID"}) <=> ~idOk
           /\ Reports(response, {"Invalid IP address",
                                 "Invalid IP address format"}) <=> ~ipOk
           /\ Reports(response, {"Invalid port number"}) <=> ~portOk
           /\ response.status = 200 <=> (idOk /\ ipOk /\ portOk)
           /\ response.status \in {200, 400}

\* C4 for the ip inputs that are strings or missing
C4_ForStringIps ==
    (response.op = "register" /\ response.body.ip.t \in {"string", "undefined"})
        => C4_AllViolationsReported

\* C5: a Register that fails validation changes no record and does not
\* count as a registration.
C5_FailedRegisterChangesNothing ==
    [][(StepOf("register") /\ response'.status # 200) =>
          /\ peers' = peers
          /\ serverStats'.totalRegistrations = serverStats.totalRegistrations]_vars

\* an invalid Register for the id of an existing record was rejected
C5_Witness ==
    /\ response.op = "register"
    /\ response.status = 400
    /\ MapHas(peers, response.body.id.s)
    /\ MapGet(peers, response.body.id.s).lastSeen < now

\* C6: Heartbeat on an existing record sets its lastSeen to now and answers
\* with it; on an unknown id it answers 404 and changes no record.
C6_Heartbeat ==
    [][StepOf("heartbeat") =>
          IF MapHas(peers, response'.id)
          THEN /\ response'.status = 200
               /\ MapGet(peers', response'.id).lastSeen = now
               /\ response'.lastSeen = now
               /\ MapKeys(peers') = MapKeys(peers)
          ELSE /\ response'.status = 404
               /\ peers' = peers
               /\ serverStats'.totalRegistrations =
                      serverStats.totalRegistrations]_vars

\* a heartbeat for a record that was removed has answered 404
C6_Witness ==
    /\ response.op = "heartbeat"
    /\ response.status = 404
    /\ serverStats.totalRegistrations > 0
    /\ peers = <<>>

\* C7: Delete removes exactly the record of its id and answers 404 with no
\* change when there is none; Get, Heartbeat and Delete succeed exactly on
\* the ids that have a record, and a record stays from its Register until
\* a Delete of its id or a sweep.
C7_Delete ==
    [][/\ StepOf("delete") =>
            IF MapHas(peers, response'.id)
            THEN /\ response'.status = 200
                 /\ MapKeys(peers') = MapKeys(peers) \ {response'.id}
                 /\ \A id \in MapKeys(peers') :
                        MapGet(peers', id) = MapGet(peers, id)
            ELSE response'.status = 404 /\ peers' = peers
       /\ (StepOf("get") \/ StepOf("heartbeat") \/ StepOf("delete")) =>
            (response'.status = 200 <=> MapHas(peers, response'.id))
       /\ RegisteredStep => MapHas(peers', response'.body.id.s)
       /\ ~(StepOf("delete") \/ StepOf("cleanup")) =>
            MapKeys(peers) \subseteq MapKeys(peers')]_vars

\* one of two records was deleted and the other is still there
C7_Witness ==
    /\ response.op = "delete"
    /\ response.status = 200
    /\ Len(peers) = 1
    /\ ~MapHas(peers, response.id)
    /\ serverStats.totalRegistrations = 2

\* C8: a sweep removes exactly the records with now - lastSeen greater than
\* five minutes and leaves the others as they were.
C8_Sweep ==
    [][StepOf("cleanup") =>
          /\ \A id \in MapKeys(peers) :
                IF now - MapGet(peers, id).lastSeen > 5 * 60 * 1000
                THEN ~MapHas(peers', id)
                ELSE /\ MapHas(peers', id)
                     /\ MapGet(peers', id) = MapGet(peers, id)
          /\ MapKeys(peers') \subseteq MapKeys(peers)
          /\ {response'.removed[i].peerId : i \in 1..Len(response'.removed)}
                = MapKeys(peers) \ MapKeys(peers')]_vars

\* a sweep removed a record 5 min + 1 s old and kept one exactly 5 min old
C8_Witness ==
    /\ response.op = "cleanup"
    /\ now = response.at
    /\ \E i \in 1..Len(response.removed) :
          response.removed[i].inactiveFor = 5 * 60 * 1000 + 1000
    /\ \E id \in MapKeys(peers) : now - MapGet(peers, id).lastSeen = 5 * 60 * 1000

ActiveQuery == Query(Undefined, Str(TrueChars), Undefined, Undefined, Undefined)

PlainQuery == Query(Undefined, Undefined, Undefined, Undefined, Undefined)

ListedIds(r) == {r.peers[i].id.s : i \in 1..Len(r.peers)}

\* C9: a record between 2 and 5 minutes old is left out of the active
\* listing but is kept by a sweep at that instant and returned by Get and
\* by the unfiltered listing; whatever the active listing returns survives
\* a sweep at that instant.
C9_ActiveWindowAndSweep ==
    /\ \A id \in MapKeys(peers) :
          LET age == now - MapGet(peers, id).lastSeen
          IN (2 * 60 * 1000 <= age /\ age <= 5 * 60 * 1000) =>
                /\ id \notin ListedIds(ListResponse(peers, ActiveQuery, now))
                /\ MapHas(SweepKeeps(peers, now), id)
                /\ GetResponse(peers, id).status = 200
                /\ id \in ListedIds(ListResponse(peers, PlainQuery, now))
    /\ ListedIds(ListResponse(peers, ActiveQuery, now))
          \subseteq MapKeys(SweepKeeps(peers, now))
    /\ response.op = "list" =>
          ListedIds(response) =
              {id \in MapKeys(peers) :
                  response.filters.activeOnly =>
                      now - MapGet(peers, id).lastSeen < 2 * 60 * 1000}

\* an active listing left out a record 3 minutes old and returned another
C9_Witness ==
    /\ response.op = "list"
    /\ response.filters.activeOnly
    /\ Len(response.peers) = 1
    /\ \E id \in MapKeys(peers) :
          /\ now - MapGet(peers, id).lastSeen = 3 * 60 * 1000
          /\ id \notin ListedIds(response)

\* C10: the timer fires every 60 s whatever the requests do, so no record
\* is in the registry more than 6 minutes after its lastSeen (at exactly 6
\* minutes only until the sweep due at that instant has run), and a sweep
\* removes no record whose lastSeen is at most 5 minutes old.
C10_SweepDeadline ==
    /\ [](\A id \in MapKeys(peers) :
             LET age == now - MapGet(peers, id).lastSeen
             IN /\ age <= 6 * 60 * 1000
                /\ age = 6 * 60 * 1000 => now = nextSweep)
    /\ [](nextSweep - now \in 0..(60 * 1000))
    /\ [][StepOf("cleanup") =>
             \A i \in 1..Len(response'.removed) :
                 response'.removed[i].inactiveFor > 5 * 60 * 1000]_vars

\* a sweep removed a record exactly 6 minutes after its lastSeen
C10_Witness ==
    /\ response.op = "cleanup"
    /\ \E i \in 1..Len(response.removed) :
          response.removed[i].inactiveFor = 6 * 60 * 1000

-----------------------------------------------------------------------------
(* GET /peers: pagination, order and filters (checked under SpecList) *)

\* the records of `list` at the zero-based positions [offset, offset+limit)
AtPositions(list, offset, limit) ==
    LET first == IF offset < 0 THEN 0 ELSE offset
        last == IF offset + limit > Len(list) THEN Len(list)
                ELSE offset + limit
    IN [n \in 1..(IF last > first THEN last - first ELSE 0) |->
          PublicPeer(list[first + n])]

\* the pagination of a list response is what the claim says of it
PaginationAsStated(r) ==
    LET list == FilteredPeers(peers, r.query, now)
        limit == r.pagination.limit
        offset == r.pagination.offset
    IN /\ r.peers = AtPositions(list, offset, limit)
       /\ r.pagination.total = Len(list)
       /\ r.pagination.hasMore = (offset + limit < r.pagination.total)

Fifty == Str(<<"5", "0">>)
Hundred == Str(<<"1", "0", "0">>)

\* C11: a list response holds the records at positions [offset, offset+limit)
\* of the filtered, sorted list, total is the length of that list and
\* hasMore = (offset + limit < total); with 120 records limit=50 offset=100
\* gives 20 records and hasMore false, limit=50 offset=0 gives 50 records
\* and hasMore true.
C11_Pagination ==
    response.op = "list" =>
        /\ PaginationAsStated(response)
        /\ (Len(peers) = 120
              /\ response.query = Query(Fifty, Undefined, Undefined,
                                        Undefined, Hundred)) =>
                 Len(response.peers) = 20 /\ ~response.pagination.hasMore
        /\ (Len(peers) = 120
              /\ response.query = Query(Fifty, Undefined, Undefined,
                                        Undefined, Str(<<"0">>))) =>
                 Len(response.peers) = 50 /\ response.pagination.hasMore

\* the same for the requests whose limit is at least 1 and whose offset is
\* not negative, the two pages of the 120 records among them
C11_ForPagesInRange ==
    (/\ response.op = "list"
     /\ response.pagination.limit >= 1
     /\ response.pagination.offset >= 0) => C11_Pagination

\* C12: whatever limit and offset are requested, a list response holds at
\* most 100 records, and at most 50 when no limit is given.
C12_AtMostHundred ==
    response.op = "list" =>
        /\ Len(response.peers) <= 100
        /\ response.query.limit = Undefined => Len(response.peers) <= 50

\* the cap holds for every limit that is not negative
C12_ForLimitsNotNegative ==
    (response.op = "list" /\ response.pagination.limit >= 0) =>
        C12_AtMostHundred

\* C13: a list response is ordered by lastSeen descending, and of two
\* records with equal lastSeen the one earlier in the registry's insertion
\* order comes first.
C13_Order ==
    response.op = "list" =>
        \A a, b \in 1..Len(response.peers) :
            a < b =>
               /\ response.peers[a].lastSeen >= response.peers[b].lastSeen
               /\ response.peers[a].lastSeen = response.peers[b].lastSeen =>
                    MapIndex(peers, response.peers[a].id.s)
                        < MapIndex(peers, response.peers[b].id.s)

\* three records listed, two of them seen at the same instant and one later
\* in the registry listed before both
C13_Witness ==
    /\ response.op = "list"
    /\ Len(response.peers) = 3
    /\ response.peers[2].lastSeen = response.peers[3].lastSeen
    /\ response.peers[1].lastSeen > response.peers[2].lastSeen
    /\ MapIndex(peers, response.peers[1].id.s)
          > MapIndex(peers, response.peers[3].id.s)

\* the record passes every filter the query supplies
Matches(p, query, t) ==
    /\ query.active = Str(TrueChars) => t - p.lastSeen < 2 * 60 * 1000
    /\ (query.capability # Undefined /\ query.capability # Str(<<>>)) =>
          \E i \in 1..Len(p.capabilities.a) :
              p.capabilities.a[i] = query.capability
    /\ (query.version # Undefined /\ query.version # Str(<<>>)) =>
          p.version = query.version

MatchingIds(m, query, t) ==
    {m[i].id.s : i \in {j \in 1..Len(m) : Matches(m[j], query, t)}}

\* C14: a list response counts and returns exactly the records that pass
\* all the supplied filters (active: seen less than 2 minutes ago;
\* capability: contained in the record's capabilities; version: equal):
\* every record of the page passes them, total is their number, a page that
\* has room for all of them holds all of them; and the request leaves the
\* registry as it was.
C14_Filters ==
    [][StepOf("list") =>
        LET r == response'
            matching == MatchingIds(peers, r.query, now)
        IN /\ peers' = peers
           /\ ListedIds(r) \subseteq matching
           /\ \A i \in 1..Len(r.peers) :
                 r.peers[i] = PublicPeer(MapGet(peers, r.peers[i].id.s))
           /\ r.pagination.total = Cardinality(matching)
           /\ (r.pagination.offset = 0
                 /\ r.pagination.limit >= Cardinality(matching)) =>
                    ListedIds(r) = matching]_vars

\* a listing with the three filters together that returns one record of
\* three, each of the other two failing a filter
C14_Witness ==
    /\ response.op = "list"
    /\ response.filters.activeOnly
    /\ response.query.capability = Str(RelayCap)
    /\ response.query.version = Str(Version2)
    /\ Len(peers) = 3
    /\ response.pagination.total = 1
    /\ Len(response.peers) = 1
    /\ \E i \in 1..3 : now - peers[i].lastSeen < 2 * 60 * 1000
                         /\ peers[i].id.s \notin ListedIds(response)

-----------------------------------------------------------------------------
(* Requests in flight together (checked under SpecConcurrent) *)

Handled == {i \in 1..Len(inflight) : inflight[i].handled}

\* the requests handled before request i, by the request counter
Before(i) == {j \in Handled : inflight[j].seq < inflight[i].seq}

\* request j was of this kind, for this id, and was answered 200
Succeeded(j, kind, id) ==
    /\ inflight[j].request.kind = kind
    /\ inflight[j].answer.status = 200
    /\ IF kind = "register" THEN inflight[j].request.req.body.id.s = id
       ELSE inflight[j].request.id = id

HandledRegisters == {i \in Handled : inflight[i].request.kind = "register"}

RegisteredIds == {inflight[i].request.req.body.id.s : i \in HandledRegisters}

\* every request handled so far was handled at most five minutes ago, so
\* no sweep has removed what it stored
AllRecent == \A i \in Handled : now - inflight[i].at <= 5 * 60 * 1000

\* C15: however the handlers of registrations in flight together are
\* ordered, every one of them succeeds, the registry holds one record per
\* registered id and no other, and the connectionCount of each record is
\* the number of registrations handled for its id: N distinct ids end with
\* N records, k registrations of one id with one record counting k.
C15_ConcurrentRegisters ==
    (/\ AllRecent
     /\ \A i \in 1..Len(inflight) : inflight[i].request.kind # "delete") =>
        /\ \A i \in HandledRegisters :
              inflight[i].answer.status = 200 /\ inflight[i].answer.success
        /\ MapKeys(peers) = RegisteredIds
        /\ Len(peers) = Cardinality(RegisteredIds)
        /\ \A id \in RegisteredIds :
              MapGet(peers, id).connectionCount =
                  Cardinality({i \in HandledRegisters :
                                  Succeeded(i, "register", id)})

\* three registrations in flight together, two of them of one id, handled
\* at two different instants: two records, one of them counting two
C15_Witness ==
    /\ Handled = 1..Len(inflight)
    /\ Cardinality(HandledRegisters) = 3
    /\ AllRecent
    /\ Len(peers) = 2
    /\ \E id \in MapKeys(peers) : MapGet(peers, id).connectionCount = 2
    /\ \E i, j \in Handled : inflight[i].at # inflight[j].at

\* the records a handled Get or List showed
Shown(i) ==
    LET answer == inflight[i].answer
    IN IF answer.op = "list"
       THEN {answer.peers[n] : n \in 1..Len(answer.peers)}
       ELSE IF answer.op = "get" /\ answer.status = 200 THEN {answer.peer}
       ELSE {}

\* the ids read i was asked about: the one of a Get, every id of a List
AskedIds(i) ==
    IF inflight[i].request.kind = "get" THEN {inflight[i].request.id}
    ELSE IF inflight[i].request.kind = "list" THEN RegisteredIds
    ELSE {}

\* the number of the last Delete of id handled before read i, or 0
DeletedAt(i, id) ==
    LET gone == {j \in Before(i) : Succeeded(j, "delete", id)}
    IN IF gone = {} THEN 0
       ELSE CHOOSE q \in {inflight[j].seq : j \in gone} :
                \A j \in gone : inflight[j].seq <= q

\* the registrations of id that read i follows, after the last Delete
RegistersSeen(i, id) ==
    {j \in Before(i) : /\ Succeeded(j, "register", id)
                       /\ inflight[j].seq > DeletedAt(i, id)}

HeartbeatsSeen(i, id) ==
    {j \in Before(i) : /\ Succeeded(j, "heartbeat", id)
                       /\ inflight[j].seq > DeletedAt(i, id)}

\* C16: every record a Get or List shows is the outcome of whole
\* operations: its connectionCount is the number of registrations handled
\* before the read since the record was created, its lastSeen is the time
\* of the last of these registrations and heartbeats, its registeredAt the
\* time of the first registration; and the read sees whole sweep passes:
\* no record it shows was inactive at the last pass before it, and a
\* record it does not show was registered more than five minutes before.
C16_ReadsSeeWholeOperations ==
    \A i \in Handled :
        /\ \A r \in Shown(i) :
              LET regs == {j \in RegistersSeen(i, r.id.s) :
                              inflight[j].at >= r.registeredAt}
                  touches == regs \cup
                             {j \in HeartbeatsSeen(i, r.id.s) :
                                 inflight[j].at >= r.registeredAt}
              IN /\ r.connectionCount = Cardinality(regs)
                 /\ \E j \in regs : inflight[j].at = r.registeredAt
                 /\ \E j \in touches : inflight[j].at = r.lastSeen
                 /\ \A j \in touches : inflight[j].at <= r.lastSeen
                 /\ (inflight[i].sweepDue - sweepInterval) - r.lastSeen
                       <= 5 * 60 * 1000
        /\ \A id \in AskedIds(i) \ {r.id.s : r \in Shown(i)} :
              \A j \in RegistersSeen(i, id) \cup HeartbeatsSeen(i, id) :
                  inflight[i].at - inflight[j].at > 5 * 60 * 1000

\* a List handled after two registrations and after the sweep that removed
\* one of the two records: it shows the other one alone
C16_Witness ==
    \E i \in Handled :
        /\ inflight[i].request.kind = "list"
        /\ Cardinality({j \in Before(i) :
                           inflight[j].request.kind = "register"}) = 2
        /\ Len(inflight[i].answer.peers) = 1
        /\ \E j \in Before(i) :
              /\ inflight[j].request.kind = "register"
              /\ inflight[j].request.req.body.id.s
                    \notin ListedIds(inflight[i].answer)

-----------------------------------------------------------------------------
(* The WebSocket server (checked under SpecSignaling) *)

\* the handler that ran last handled a parsed message of one of these types
WsHandledOneOf(types) ==
    /\ response.op = "ws_message"
    /\ response.parsed
    /\ response.data.type \in types

\* C17: once a register message with peerId is handled on a socket, the
\* directory maps peerId to that socket, whatever socket held it before,
\* and the handler has sent nothing to any other socket; no key of the
\* directory is bound to two sockets.
C17_RegisterBinds ==
    /\ \A e1, e2 \in websocketClients : e1.key = e2.key => e1 = e2
    /\ WsHandledOneOf({"register"}) =>
          /\ [key |-> response.data.peerId, ws |-> response.ws]
                \in websocketClients
          /\ \A i \in 1..Len(response.sent) : response.sent[i].to = response.ws

\* a register message was handled on a socket for the id another open
\* socket registered before: the directory holds the new socket
C17_Witness ==
    /\ WsHandledOneOf({"register"})
    /\ response.data.peerId = Str(IdAlpha)
    /\ \E ws \in Sockets \ {response.ws} :
          /\ sockets[ws].readyState = "OPEN"
          /\ sockets[ws].peerId = Str(IdAlpha)
    /\ ClientsGet(websocketClients, Str(IdAlpha)) = response.ws

\* C18: the close of a socket that registered peerId leaves no entry for
\* peerId in the directory, also when the entry held another, newer socket
\* that is still open; and a relay message to an id without an entry is
\* sent to nobody.
C18_CloseUnbinds ==
    [][/\ \A ws \in Sockets :
             (/\ response'.op = "ws_close"
              /\ response'.ws = ws
              /\ sockets[ws].readyState # "CLOSED"
              /\ Truthy(sockets[ws].peerId)) =>
                 ~ClientsHas(websocketClients', sockets[ws].peerId)
       /\ (/\ response'.op = "ws_message"
           /\ response'.parsed
           /\ response'.data.type \in RelayTypes
           /\ ~ClientsHas(websocketClients, response'.data.to)) =>
              response'.sent = <<>>]_vars

\* two sockets registered the same id, one of them has closed, the other
\* is open, the id has no entry, and an offer addressed to it was dropped
C18_Witness ==
    /\ WsHandledOneOf(RelayTypes)
    /\ response.data.to = Str(IdBravo)
    /\ response.sent = <<>>
    /\ ~ClientsHas(websocketClients, Str(IdBravo))
    /\ \E ws1, ws2 \in Sockets :
          /\ sockets[ws1] = [readyState |-> "CLOSED", peerId |-> Str(IdBravo)]
          /\ sockets[ws2] = [readyState |-> "OPEN", peerId |-> Str(IdBravo)]

\* the socket the `to` of the message handled last is bound to
Target == ClientsGet(websocketClients, response.data.to)

\* a relay message was handled whose `to` is bound to an open socket
Deliverable ==
    /\ WsHandledOneOf(RelayTypes)
    /\ ClientsHas(websocketClients, response.data.to)
    /\ sockets[Target].readyState = "OPEN"

\* C19: a relay message whose `to` is bound to an open socket makes the
\* handler send exactly one message, to that socket: it has the type, the
\* from and the payload of the message received.
C19_RelayDelivers ==
    Deliverable =>
        /\ Len(response.sent) = 1
        /\ response.sent[1].to = Target
        /\ response.sent[1].message.type = response.data.type
        /\ response.sent[1].message.from = response.data.from
        /\ response.data.type = "peer_offer" =>
              response.sent[1].message.offer = response.data.offer
        /\ response.data.type = "peer_answer" =>
              response.sent[1].message.answer = response.data.answer
        /\ response.data.type = "ice_candidate" =>
              response.sent[1].message.candidate = response.data.candidate

\* an answer from one registered socket was delivered to another
C19_Witness ==
    /\ Deliverable
    /\ response.data.type = "peer_answer"
    /\ Target # response.ws
    /\ Truthy(sockets[response.ws].peerId)
    /\ response.sent[1].message.answer = Str(AnswerY)

\* an offer was handled that a socket registered as IdAlpha sent to
\* IdBravo, which is bound to another, open socket
OfferFromAlphaToBravo ==
    /\ Deliverable
    /\ response.data.type = "peer_offer"
    /\ response.data.to = Str(IdBravo)
    /\ sockets[response.ws].peerId = Str(IdAlpha)
    /\ Target # response.ws
    /\ sockets[Target].peerId = Str(IdBravo)

\* C20, as the code has it: the offer the socket of B receives has the
\* `from` of the message A's socket sent (A when the message says so) and
\* its offer unchanged.
C20_OfferForwarded ==
    OfferFromAlphaToBravo =>
        response.sent =
            <<[to |-> Target,
               message |-> [type |-> "peer_offer",
                            from |-> response.data.from,
                            offer |-> response.data.offer]]>>

\* the message of A's socket names A as `from`, and so does the offer B
\* receives
C20_Witness ==
    /\ OfferFromAlphaToBravo
    /\ response.data.from = Str(IdAlpha)
    /\ response.sent[1].message.from = Str(IdAlpha)
    /\ response.sent[1].message.offer = Str(OfferX)

\* C20, as stated: the offer the socket of B receives has the identity of
\* the sending peer A as `from`, and the offer unchanged.
C20_FromIsSender ==
    OfferFromAlphaToBravo =>
        response.sent =
            <<[to |-> Target,
               message |-> [type |-> "peer_offer", from |-> Str(IdAlpha),
                            offer |-> response.data.offer]]>>

\* C21: a relay message whose `to` has no entry, or whose entry holds a
\* socket that is not open, makes the handler send nothing to anybody and
\* log a warning; and no handler ever sends a forwarded message other than
\* the one made from the message it is handling, so a message that was
\* dropped is not delivered later (a register is answered with the
\* peer_list alone).
C21_UndeliverableDropped ==
    response.op = "ws_message" =>
        /\ (WsHandledOneOf(RelayTypes) /\ ~Deliverable) =>
              response.sent = <<>> /\ response.log = "warn"
        /\ \A i \in 1..Len(response.sent) :
              response.sent[i].message.type \in RelayTypes =>
                 /\ WsHandledOneOf(RelayTypes)
                 /\ response.sent[i].message.type = response.data.type
        /\ WsHandledOneOf({"register"}) =>
              /\ Len(response.sent) = 1
              /\ response.sent[1].message.type = "peer_list"

\* an offer to an id whose entry holds a socket that is closing, dropped
C21_Witness ==
    /\ WsHandledOneOf(RelayTypes)
    /\ ClientsHas(websocketClients, response.data.to)
    /\ sockets[Target].readyState = "CLOSING"
    /\ response.sent = <<>>
    /\ response.log = "warn"

-----------------------------------------------------------------------------
(* The registry and the WebSocket server together (checked under
   SpecServer) *)

\* the step just taken handled a parsed WebSocket message of one of these
\* types
WsStepOf(types) ==
    /\ response'.op = "ws_message"
    /\ vars' # vars
    /\ response'.parsed
    /\ response'.data.type \in types

\* C22: the handler of a register message sends one message, on the socket
\* the register came from: a peer_list with one entry per record of the
\* registry, in the registry's order, holding the record's id, name,
\* capabilities and lastSeen and nothing else; and it leaves the registry
\* as it was.
C22_RegisterSnapshot ==
    [][WsStepOf({"register"}) =>
          /\ peers' = peers
          /\ Len(response'.sent) = 1
          /\ response'.sent[1].to = response'.ws
          /\ LET list == response'.sent[1].message
             IN /\ list.type = "peer_list"
                /\ Len(list.peers) = Len(peers)
                /\ \A i \in 1..Len(peers) :
                      /\ DOMAIN list.peers[i] =
                            {"id", "name", "capabilities", "lastSeen"}
                      /\ list.peers[i].id = peers[i].id
                      /\ list.peers[i].name = peers[i].name
                      /\ list.peers[i].capabilities = peers[i].capabilities
                      /\ list.peers[i].lastSeen = peers[i].lastSeen]_vars

\* a register answered with the one record of the registry, which a
\* heartbeat has refreshed since it was registered
C22_Witness ==
    /\ WsHandledOneOf({"register"})
    /\ Len(peers) = 1
    /\ Len(response.sent[1].message.peers) = 1
    /\ response.sent[1].message.peers[1].lastSeen = peers[1].lastSeen
    /\ peers[1].lastSeen > peers[1].updatedAt

HttpOps == {"register", "heartbeat", "delete", "get", "list"}

WsOps == {"ws_connection", "ws_message", "ws_closing", "ws_close", "ws_error"}

\* C28: a step of an HTTP handler or of the cleanup timer leaves the
\* directory and the sockets as they were; a step of a WebSocket handler
\* leaves the registry and its counters as they were; and whether a relay
\* message is forwarded follows from the directory alone: it is, to the
\* socket its `to` is bound to when that socket is open, whether or not
\* the registry holds a record for the id, and it is not when the id has
\* no entry, record or not.
C28_Independence ==
    [][/\ (response'.op \in HttpOps \cup {"cleanup", "tick"}
             /\ vars' # vars) =>
              websocketClients' = websocketClients /\ sockets' = sockets
       /\ (response'.op \in WsOps /\ vars' # vars) =>
              peers' = peers /\ serverStats' = serverStats
       /\ WsStepOf(RelayTypes) =>
              IF /\ ClientsHas(websocketClients, response'.data.to)
                 /\ sockets[ClientsGet(websocketClients,
                                       response'.data.to)].readyState = "OPEN"
              THEN /\ Len(response'.sent) = 1
                   /\ response'.sent[1].to =
                         ClientsGet(websocketClients, response'.data.to)
              ELSE response'.sent = <<>>]_vars

\* an offer forwarded to the socket bound to an id whose record was
\* registered and is no longer in the registry
C28_Witness ==
    /\ Deliverable
    /\ Len(response.sent) = 1
    /\ response.data.to = Str(IdAlpha)
    /\ peers = <<>>
    /\ serverStats.totalRegistrations > 0

-----------------------------------------------------------------------------
(* Messages that change nothing (checked under SpecSignaling) *)

\* C23: the handler of a ping sends exactly one message, a pong, to the
\* socket the ping came from, whether or not that socket has registered,
\* and nothing to any other socket; the directory, every socket's bound
\* peerId and readyState, and the registry with its counters are as they
\* were.
C23_PingPong ==
    [][WsStepOf({"ping"}) =>
          /\ response'.sent =
                <<[to |-> response'.ws, message |-> [type |-> "pong"]]>>
          /\ websocketClients' = websocketClients
          /\ sockets' = sockets
          /\ peers' = peers
          /\ serverStats' = serverStats]_vars

\* a ping from a registered socket answered while another socket, not
\* registered, is open
C23_Witness ==
    /\ WsHandledOneOf({"ping"})
    /\ Len(response.sent) = 1
    /\ response.sent[1].message.type = "pong"
    /\ Truthy(sockets[response.ws].peerId)
    /\ ClientsHas(websocketClients, sockets[response.ws].peerId)
    /\ \E o \in Sockets :
          o # response.ws /\ sockets[o] = [readyState |-> "OPEN",
                                             peerId |-> Null]

\* a ping from a socket that has not registered, answered
C23_WitnessAnonymous ==
    /\ WsHandledOneOf({"ping"})
    /\ response.sent = <<[to |-> response.ws, message |-> [type |-> "pong"]]>>
    /\ sockets[response.ws].peerId = Null

KnownTypes == {"register", "ping"} \cup RelayTypes

\* the step just taken handled a message that does not parse or whose type
\* the switch does not know
DroppedStep ==
    /\ response'.op = "ws_message"
    /\ vars' # vars
    /\ response'.parsed => response'.data.type \notin KnownTypes

\* the message handled last did not parse or had a type the switch does
\* not know
Dropped ==
    /\ response.op = "ws_message"
    /\ response.parsed => response.data.type \notin KnownTypes

\* C24: the handler of a message that does not parse, or whose type is
\* none of register, peer_offer, peer_answer, ice_candidate and ping,
\* sends nothing, logs (an error for the first, a warning for the second)
\* and leaves the directory, the sockets and the registry as they were;
\* and right after it the socket is open and the handler of every message
\* is enabled on it.
C24_Dropped ==
    /\ [][DroppedStep =>
             /\ response'.sent = <<>>
             /\ response'.log = (IF response'.parsed THEN "warn" ELSE "error")
             /\ websocketClients' = websocketClients
             /\ sockets' = sockets
             /\ peers' = peers
             /\ serverStats' = serverStats]_vars
    /\ [](Dropped =>
             /\ sockets[response.ws].readyState = "OPEN"
             /\ \A message \in WsMessages :
                   ENABLED WsMessage(response.ws, message))

\* a message of a registered socket that does not parse was dropped: the
\* socket is open and bound to its id still
C24_Witness ==
    /\ Dropped
    /\ ~response.parsed
    /\ response.sent = <<>>
    /\ sockets[response.ws].readyState = "OPEN"
    /\ Truthy(sockets[response.ws].peerId)
    /\ ClientsGet(websocketClients, sockets[response.ws].peerId) = response.ws

-----------------------------------------------------------------------------
(* The time stamps of a record (checked under Spec) *)

\* the step just taken was a heartbeat that found its record
HeartbeatStep == StepOf("heartbeat") /\ response'.status = 200

\* C25, as the code has it: a successful Register leaves the record with
\* updatedAt = lastSeen = now; a successful Heartbeat sets lastSeen to now
\* and leaves updatedAt (and every other field) as it was, so that
\* updatedAt <= lastSeen = now after it.
C25_Stamps ==
    [][/\ RegisteredStep =>
             LET peer == MapGet(peers', response'.body.id.s)
             IN peer.updatedAt = now /\ peer.lastSeen = now
       /\ HeartbeatStep =>
             LET before == MapGet(peers, response'.id)
                 peer == MapGet(peers', response'.id)
             IN /\ peer.lastSeen = now
                /\ peer.updatedAt = before.updatedAt
                /\ peer.updatedAt <= peer.lastSeen
                /\ peer = [before EXCEPT !.lastSeen = now]]_vars

\* a heartbeat has refreshed a record later than it was registered: its
\* lastSeen is now, its updatedAt the time of the registration
C25_Witness ==
    /\ response.op = "heartbeat"
    /\ response.status = 200
    /\ MapHas(peers, response.id)
    /\ MapGet(peers, response.id).lastSeen = now
    /\ MapGet(peers, response.id).updatedAt < now
    /\ MapGet(peers, response.id).updatedAt =
          MapGet(peers, response.id).registeredAt

\* C25, as stated: after every successful Register or Heartbeat the record
\* has updatedAt = lastSeen = now.
C25_BothRefreshed ==
    [][(RegisteredStep \/ HeartbeatStep) =>
          LET id == IF response'.op = "register" THEN response'.body.id.s
                    ELSE response'.id
              peer == MapGet(peers', id)
          IN peer.updatedAt = now /\ peer.lastSeen = now]_vars

-----------------------------------------------------------------------------
(* The sockets of the directory (checked under SpecSignaling) *)

\* C26: no socket is the value of two keys of the directory.
C26_OneIdentityPerChannel ==
    \A e1, e2 \in websocketClients : e1.ws = e2.ws => e1.key = e2.key

\* the step just taken ran the error callback of a socket that has
\* registered an id
ErrorOnRegistered ==
    /\ StepOf("ws_error")
    /\ Truthy(sockets[response'.ws].peerId)

\* C27, as the code has it: the error callback of a socket logs the error
\* and nothing else: the directory is as it was, the entry of the id the
\* socket registered included, the socket is bound to the same id and is
\* not closed by the callback; the entry goes when the close callback of
\* the socket runs.
C27_ErrorOnlyLogs ==
    [][/\ StepOf("ws_error") =>
             /\ response'.log = "error"
             /\ websocketClients' = websocketClients
             /\ sockets'[response'.ws].peerId = sockets[response'.ws].peerId
             /\ sockets'[response'.ws].readyState \in {"OPEN", "CLOSING"}
             /\ \A o \in Sockets \ {response'.ws} : sockets'[o] = sockets[o]
       /\ (StepOf("ws_close") /\ Truthy(sockets[response'.ws].peerId)) =>
             /\ ~ClientsHas(websocketClients', sockets[response'.ws].peerId)
             /\ sockets'[response'.ws].readyState = "CLOSED"]_vars

\* the error callback of a registered socket has run: the id is bound to
\* the socket still, and the socket is open
C27_Witness ==
    /\ response.op = "ws_error"
    /\ Truthy(response.peerId)
    /\ ClientsHas(websocketClients, response.peerId)
    /\ ClientsGet(websocketClients, response.peerId) = response.ws
    /\ sockets[response.ws].readyState = "OPEN"

\* C27, as stated: the error callback of a socket that has registered an
\* id removes the entry of the id and leaves the socket closed.
C27_ErrorUnbinds ==
    [][ErrorOnRegistered =>
          /\ ~ClientsHas(websocketClients', sockets[response'.ws].peerId)
          /\ sockets'[response'.ws].readyState = "CLOSED"]_vars

-----------------------------------------------------------------------------
(* What Register stores and answers (checked under SpecValidation) *)

\* C29: a Register whose id, ip or port is not a valid input is answered
\* 400 with a list of violations that is not empty, never 500.
C29_InvalidIsValidationError ==
    (/\ response.op = "register"
     /\ \/ ~ValidInput(IdInputs, response.body.id)
        \/ ~ValidInput(IpInputs, response.body.ip)
        \/ ~ValidInput(PortInputs, response.body.port)) =>
        /\ response.status = 400
        /\ Len(response.details) > 0

\* C30: the port of every record of the registry is an integer from 1 to
\* 65535.
C30_StoredPortInRange ==
    \A i \in 1..Len(peers) :
        /\ peers[i].port.t = "number"
        /\ peers[i].port.n \in 1..65535

-----------------------------------------------------------------------------
(* Who receives and who sends (checked under SpecSignaling) *)

\* C34: every message a relay handler sends goes to a socket whose
\* readyState is OPEN when the handler runs (the handler changes no
\* socket, so it is OPEN right after the handler too), whatever sockets
\* the directory holds.
C34_ForwardedToOpenOnly ==
    response.op = "ws_message" =>
        \A i \in 1..Len(response.sent) :
            response.sent[i].message.type \in RelayTypes =>
                sockets[response.sent[i].to].readyState = "OPEN"

\* an offer to an id whose entry holds a socket that has closed was
\* dropped, while another socket is open
C34_Witness ==
    /\ WsHandledOneOf(RelayTypes)
    /\ ClientsHas(websocketClients, response.data.to)
    /\ sockets[Target].readyState = "CLOSED"
    /\ response.sent = <<>>
    /\ sockets[response.ws].readyState = "OPEN"

\* C35: no entry of the directory holds a socket that has closed.
C35_NoStaleEntries ==
    \A e \in websocketClients : sockets[e.ws].readyState # "CLOSED"

\* C36: a message is forwarded to another socket only when the socket it
\* came from has sent a register message (its peerId variable is null
\* until it does).
C36_RegisteredSendersOnly ==
    [][(/\ WsStepOf(RelayTypes)
        /\ \E i \in 1..Len(response'.sent) :
              response'.sent[i].to # response'.ws) =>
          sockets[response'.ws].peerId # Null]_vars

-----------------------------------------------------------------------------
(* Records that come back (checked under SpecServer, where every request
   is for IdAlpha) *)

\* the handler that ran last removed the record of this id: a DELETE that
\* answered 200, or a sweep that logged the id as removed
JustRemoved(id) ==
    \/ response.op = "delete" /\ response.status = 200 /\ response.id = id
    \/ /\ response.op = "cleanup"
       /\ \E i \in 1..Len(response.removed) : response.removed[i].peerId = id

\* C37: a successful Register of an id that has no record, and one that
\* comes right after the Delete or the sweep that removed the record of
\* the id, stores a record with connectionCount 1 and registeredAt,
\* lastSeen and updatedAt now, and answers as for a new peer.
C37_FreshAfterRemoval ==
    [][LET id == response'.body.id.s
       IN (RegisteredStep /\ (~MapHas(peers, id) \/ JustRemoved(id))) =>
             /\ MapGet(peers', id).connectionCount = 1
             /\ MapGet(peers', id).registeredAt = now
             /\ MapGet(peers', id).lastSeen = now
             /\ MapGet(peers', id).updatedAt = now
             /\ ~response'.isUpdate
             /\ response'.peer.registeredAt = now]_vars

\* IdAlpha was registered before, its record was removed by a sweep (no
\* request other than the registrations was made), and it has been
\* registered again, later: the record counts one connection and is
\* registered now
C37_Witness ==
    /\ response.op = "register"
    /\ response.status = 200
    /\ serverStats.totalRegistrations >= 2
    /\ serverStats.totalRequests = serverStats.totalRegistrations
    /\ MapGet(peers, IdAlpha).connectionCount = 1
    /\ MapGet(peers, IdAlpha).registeredAt = now
    /\ now > 5 * sweepInterval

\* the same after a Delete
C37_WitnessDeleted ==
    /\ response.op = "register"
    /\ response.status = 200
    /\ serverStats.totalRegistrations = 2
    /\ serverStats.totalRequests = 3
    /\ MapGet(peers, IdAlpha).connectionCount = 1
    /\ MapGet(peers, IdAlpha).registeredAt = now
    /\ now = 5 * sweepInterval

-----------------------------------------------------------------------------
(* What a heartbeat leaves alone (checked under Spec) *)

\* C38: a Heartbeat that finds its record changes the lastSeen of that
\* record and nothing else: the other fields of the record, every other
\* record, the number and the order of the records, the directory and the
\* sockets are as they were; a Heartbeat that finds no record changes no
\* record at all.
C38_HeartbeatFrame ==
    [][StepOf("heartbeat") =>
          /\ Len(peers') = Len(peers)
          /\ \A i \in 1..Len(peers) :
                IF peers[i].id.s = response'.id
                THEN /\ \A f \in DOMAIN peers[i] \ {"lastSeen"} :
                           peers'[i][f] = peers[i][f]
                     /\ DOMAIN peers'[i] = DOMAIN peers[i]
                ELSE peers'[i] = peers[i]
          /\ response'.status = 404 => peers' = peers
          /\ websocketClients' = websocketClients
          /\ sockets' = sockets]_vars

\* a heartbeat has refreshed one of two records, later than either was
\* registered: the other has the lastSeen of its registration
C38_Witness ==
    /\ response.op = "heartbeat"
    /\ response.status = 200
    /\ Len(peers) = 2
    /\ MapGet(peers, response.id).lastSeen = now
    /\ MapGet(peers, response.id).registeredAt < now
    /\ \E i \in 1..2 :
          /\ peers[i].id.s # response.id
          /\ peers[i].lastSeen < now
          /\ peers[i].lastSeen = peers[i].updatedAt

-----------------------------------------------------------------------------
(* The network summary of a Register (checked under Spec) *)

\* C32: the answer to a successful Register has totalPeers equal to the
\* number of records the registry holds after the registration and
\* activePeers equal to the number of those whose lastSeen is less than
\* two minutes before now; the record just stored is one of them, so that
\* 1 <= activePeers <= totalPeers.
C32_NetworkSummary ==
    [][RegisteredStep =>
          LET network == response'.network
              recent == {i \in 1..Len(peers') :
                           now - peers'[i].lastSeen < 2 * 60 * 1000}
          IN /\ network.totalPeers = Len(peers')
             /\ network.totalPeers = Cardinality(MapKeys(peers'))
             /\ network.activePeers = Cardinality(recent)
             /\ \E i \in recent : peers'[i].id = response'.body.id
             /\ 1 <= network.activePeers
             /\ network.activePeers <= network.totalPeers]_vars

\* a Register answered with two peers of which one is active: the other
\* was last seen exactly two minutes ago
C32_Witness ==
    /\ response.op = "register"
    /\ response.status = 200
    /\ response.network = [totalPeers |-> 2, activePeers |-> 1]
    /\ \E i \in 1..Len(peers) : now - peers[i].lastSeen = 2 * 60 * 1000

-----------------------------------------------------------------------------
(* What the reads show of a record (checked under SpecReads) *)

\* two registries hold the same records but for their userAgent and
\* ipAddress
SameButPrivate(m1, m2) ==
    /\ Len(m1) = Len(m2)
    /\ \A i \in 1..Len(m1) :
          [m1[i] EXCEPT !.userAgent = m2[i].userAgent,
                        !.ipAddress = m2[i].ipAddress] = m2[i]

\* C39: the answer of a GET /peers, of a GET /peers/:id and the peer_list
\* a register message is answered with are the ones the same read gives
\* over every registry that differs from this one in nothing but the
\* userAgent and the ipAddress of its records.
C39_PrivateFieldsUnseen ==
    \A other \in ReadRegistries :
        SameButPrivate(other, peers) =>
            /\ response.op = "list" =>
                  response = ListResponse(other, response.query, now)
            /\ response.op = "get" =>
                  response = GetResponse(other, response.id)
            /\ WsHandledOneOf({"register"}) =>
                  response.sent[1].message = PeerList(other)

\* both records, registered from different addresses, one with and one
\* without a User-Agent, were listed
C39_Witness ==
    /\ response.op = "list"
    /\ Len(response.peers) = 2
    /\ peers[1].userAgent # peers[2].userAgent
    /\ peers[1].ipAddress # peers[2].ipAddress
    /\ Cardinality({other \in ReadRegistries :
                      SameButPrivate(other, peers)}) > 1

-----------------------------------------------------------------------------
(* The v1 server's GET /peers (checked under SpecLegacy) *)

\* C33: the answer of a GET /peers of the v1 server holds 50 peers at
\* most.
C33_LegacyAtMostFifty ==
    response.op = "v1_list" =>
        /\ Len(response.peers) <= 50
        /\ response.count <= 50

-----------------------------------------------------------------------------
(* Shutdown (checked under SpecShutdown) *)

\* once gracefulShutdown has run the process exits
C31_EventuallyExits ==
    (lifecycle.phase = "closing") ~> (lifecycle.phase = "exited")

\* C31: gracefulShutdown leaves the server not listening and no WebSocket
\* open; the process exits with code 1 only when an HTTP request is in
\* flight still (with code 0 when none is); and once gracefulShutdown has
\* run the process exits.
C31_GracefulShutdown ==
    /\ [][StepOf("shutdown") =>
             /\ ~lifecycle'.listening
             /\ \A ws \in Sockets : sockets'[ws].readyState # "OPEN"]_vars
    /\ []((lifecycle.phase = "exited" /\ lifecycle.code = 1) =>
             \E i \in 1..Len(inflight) : ~inflight[i].handled)
    /\ C31_EventuallyExits

====
